---- MODULE Spec2Model ----
(***************************************************************************)
(* Weather forecast application: the daily aggregation of 3-hour forecast  *)
(* samples (processWeatherData), its unit conversions, the forecast fetch  *)
(* with its fallback to demo data (fetchWeatherData) and the city search   *)
(* with its fallback to the bundled city list (searchCities,               *)
(* searchCitiesAdvanced) and by coordinates (searchCitiesByCoordinates),   *)
(* as written in src/src/utils/weatherApi.ts; the                          *)
(* App component (src/src/App.tsx) with its overlapping forecast requests; *)
(* and the debounced search box (src/src/components/CitySearch.tsx).       *)
(*                                                                         *)
(* Representation.  Instants are integers in milliseconds since the epoch, *)
(* as in a JavaScript Date.  The 'YYYY-MM-DD' string of a date is          *)
(* represented by its epoch-day number (0 is 1970-01-01), which orders and *)
(* compares as the string does.  The browser's timezone is a fixed offset  *)
(* in whole hours east of UTC.  Real-valued inputs are integers           *)
(* (temperatures are in 1/10000 of a degree),                              *)
(* and Math.round is computed exactly on the quotient.  An optional field  *)
(* is the empty sequence when missing and a one-element sequence when      *)
(* present.  Sequences are 1-based: index 0 stands for JavaScript's -1.    *)
(***************************************************************************)
EXTENDS Integers, Sequences, FiniteSets, TLC

VARIABLES
    tz,              \* timezone offset of the browser, hours east of UTC
    list,            \* data.list, the input of processWeatherData
    idx,             \* position of forEach in list (next sample to visit)
    dailyForecasts,  \* the array being built, then the returned array
    processedDates,  \* the Set of date strings
    pc,              \* "idle" | "forEach" | "done"
    apiKey,          \* API_KEY, the configured key
    lat, lon,        \* arguments of fetchWeatherData
    now,             \* the clock read by getDemoWeatherData, in milliseconds
    fpc,             \* "idle" | "called" | "awaitFetch" | "awaitJson" | "resolved" | "rejected"
    requests,        \* number of fetch() requests issued by the call
    response,        \* what the request did: "none" | "ok" | "notOk" | "throws"
    body,            \* what response.json() did: "none" | "ok" | "throws"
    result,          \* the value the returned promise settled with
    searchCall,      \* a call of searchCities, searchCitiesAdvanced or
                     \* searchCitiesByCoordinates: its arguments, control
                     \* position, request, outcome of the request and settled value
    geocoded,        \* a decoded geocoding response on its way through lines 32-36 of
                     \* searchCities: the array, the query, and the arrays made of it
    selectedCity,    \* App state: <<>> for null, else <<city>>
    weatherData,     \* App state: the daily series
    loading,         \* App state
    error,           \* App state: <<>> for null, else <<message>>
    lastUpdated,     \* App state: <<>> for null, else <<instant>>
    calls,           \* the runs of handleCitySelect, in the order they started
    lastEvent,       \* the last handler the user invoked, its argument and its number
    rngState,        \* the state of the generator behind Math.random
    citySearch,      \* CitySearch state: the six useState values of the last render
    baseState,       \* the useState values before the oldest setter call that awaits its render
    updates,         \* the setter calls from the oldest that awaits its render on, in order
    timers,          \* the debounce timers that are set and have not fired
    searches,        \* the searches started by searchForCities, in order
    lastChange,      \* the instant at which the debounce effect last ran
    selections       \* the cities passed to onCitySelect, in order

aggVars == <<tz, list, idx, dailyForecasts, processedDates, pc>>

fetchVars == <<apiKey, lat, lon, now, fpc, requests, response, body, result>>

searchVars == <<searchCall, geocoded>>

appVars == <<selectedCity, weatherData, loading, error, lastUpdated, calls, lastEvent, rngState>>

boxVars == <<citySearch, baseState, updates, timers, searches, lastChange, selections>>

\* the variables of the other parts of the program
restVars == <<searchVars, appVars, boxVars>>

vars == <<aggVars, fetchVars, restVars>>

\* no call of searchCities or searchCitiesAdvanced is under way
SearchIdle == searchCall = [pc |-> "idle"] /\ geocoded = [stage |-> "idle"]

\* App.tsx lines 11-15: the state of App after construction, no handler invoked yet
AppIdle ==
    /\ selectedCity = <<>>
    /\ weatherData = <<>>
    /\ loading = FALSE
    /\ error = <<>>
    /\ lastUpdated = <<>>
    /\ calls = <<>>
    /\ lastEvent = [kind |-> "none", city |-> <<>>, n |-> 0]
    /\ rngState = 0

\* CitySearch is not mounted
BoxIdle ==
    /\ citySearch = [query |-> "", suggestions |-> <<>>, isLoading |-> FALSE,
                     showSuggestions |-> FALSE, highlightedIndex |-> -1, searchMode |-> "basic"]
    /\ baseState = citySearch
    /\ updates = <<>>
    /\ timers = {}
    /\ searches = <<>>
    /\ lastChange = 0
    /\ selections = <<>>

RestIdle == SearchIdle /\ AppIdle /\ BoxIdle

-----------------------------------------------------------------------------
(* Bounds of the model *)

\* longest input list drawn from every sequence over ShortInstants
MaxLen == 3
\* number of distinct days of the long input lists (more than the cap of 7)
LongDays == 8
\* largest wind speed (m/s), cloud percentage drawn for the unit conversions
MaxWindSpeed == 12
MaxCloudPct == 100

\* days and UTC hours of the samples of the short lists, hours of the long ones
ShortDays == {0, 1}
HourSet == {3, 9, 12, 13, 15}
TzOffsets == {-5, 0, 9}

-----------------------------------------------------------------------------
(* Program constants *)

\* weatherApi.ts:149  if (dailyForecasts.length >= 7) return;
MaxDailyForecasts == 7
\* weatherApi.ts:140  Math.abs(hour - 12)
Midday == 12

MsPerSecond == 1000
MsPerHour == 3600000
MsPerDay == 86400000

-----------------------------------------------------------------------------
(* JavaScript primitives used by the code *)

Abs(x) == IF x < 0 THEN -x ELSE x

\* Math.round(n / d) for d > 0: the nearest integer, halves towards +infinity
MathRound(n, d) == (2 * n + d) \div (2 * d)

\* date.toISOString().split('T')[0]: the UTC calendar date of an instant
ToISODateString(ms) == ms \div MsPerDay

\* date.getHours(): the hour of day on the browser's clock
GetHours(ms, zone) == ((ms + zone * MsPerHour) % MsPerDay) \div MsPerHour

\* new Date(dateStr): a date-only string is parsed as UTC midnight
ParseDateOnly(dateStr) == dateStr * MsPerDay

\* new Date(dateStr + 'T12:00:00'): a date-time without offset is local time
ParseLocalNoon(dateStr, zone) == dateStr * MsPerDay + 12 * MsPerHour - zone * MsPerHour

WeekdayNames == <<"Thursday", "Friday", "Saturday", "Sunday", "Monday", "Tuesday", "Wednesday">>

\* date.toLocaleDateString('en-US', { weekday: 'long' }): weekday on the browser's clock
ToLocaleWeekday(ms, zone) == WeekdayNames[(((ms + zone * MsPerHour) \div MsPerDay) % 7) + 1]

\* x?.['3h'] is truthy: present and non-zero
Truthy3h(opt) == Len(opt) > 0 /\ opt[1] # 0

\* (x?.['3h'] || 0)
OrZero3h(opt) == IF Truthy3h(opt) THEN opt[1] ELSE 0

-----------------------------------------------------------------------------
(* Unit conversions of processWeatherData *)

Directions == <<"N", "NNE", "NE", "ENE", "E", "ESE", "SE", "SSE", "S", "SSW", "SW", "WSW", "W", "WNW", "NW", "NNW">>

getWindDirection(degrees) == Directions[(MathRound(degrees * 10, 225) % 16) + 1]

PrecipitationAmount(forecast) == OrZero3h(forecast.rain) + OrZero3h(forecast.snow)

PrecipitationTypeRainFirst(forecast) ==
    IF Truthy3h(forecast.rain) THEN "rain"
    ELSE IF Truthy3h(forecast.snow) THEN "snow" ELSE "none"

PrecipitationType(forecast) ==
    IF Truthy3h(forecast.snow) THEN "snow"
    ELSE IF Truthy3h(forecast.rain) THEN "rain" ELSE "none"

WindSpeedKmhTruncated(speed) == (speed * 36) \div 10

\* Math.round(forecast.wind.speed * 3.6)
WindSpeedKmh(speed) == MathRound(speed * 36, 10)

\* Math.round(forecast.visibility / 1000)
VisibilityKm(metres) == MathRound(metres, 1000)

CloudCoverTruncated(pct) == pct \div 10

\* Math.round(forecast.clouds.all / 10)
CloudCover(pct) == MathRound(pct, 10)

\* the unit of temperatures: 1/10000 of a degree
DegreeUnit == 10000

\* the object pushed for a sample
ToDailyForecast(forecast, zone) ==
    [ date              |-> ToISODateString(forecast.dt * MsPerSecond),
      dayOfWeek         |-> ToLocaleWeekday(forecast.dt * MsPerSecond, zone),
      temperature       |-> MathRound(forecast.main.temp, DegreeUnit),
      tempMin           |-> MathRound(forecast.main.temp_min, DegreeUnit),
      tempMax           |-> MathRound(forecast.main.temp_max, DegreeUnit),
      condition         |-> forecast.weather[1].main,
      humidity          |-> forecast.main.humidity,
      windSpeed         |-> WindSpeedKmh(forecast.wind.speed),
      windDirection     |-> getWindDirection(forecast.wind.deg),
      precipitation     |-> PrecipitationAmount(forecast),
      precipitationType |-> PrecipitationType(forecast),
      cloudCover        |-> CloudCover(forecast.clouds.all),
      pressure          |-> forecast.main.pressure,
      visibility        |-> VisibilityKm(forecast.visibility) ]

-----------------------------------------------------------------------------
(* processWeatherData: the body of the forEach callback and the final sort *)

ProcessedHasNever(dates, dateStr) == FALSE

\* processedDates.has(dateStr)
ProcessedHas(dates, dateStr) == dateStr \in dates

\* dailyForecasts.findIndex(f => f.date === dateStr); 0 when there is none
FindIndex(fs, dateStr) ==
    IF \E i \in 1..Len(fs) : fs[i].date = dateStr
    THEN CHOOSE i \in 1..Len(fs) :
            fs[i].date = dateStr /\ \A j \in 1..(i - 1) : fs[j].date # dateStr
    ELSE 0

\* new Date(existingForecast.date + 'T12:00:00').getHours()
ExistingHour(existingForecast, zone) ==
    GetHours(ParseLocalNoon(existingForecast.date, zone), zone)

KeepExistingStrict(hour, existingHour) ==
    Abs(hour - Midday) > Abs(existingHour - Midday)

\* Math.abs(hour - 12) >= Math.abs(existingHour - 12): the sample is skipped
KeepExisting(hour, existingHour) ==
    Abs(hour - Midday) >= Abs(existingHour - Midday)

\* dailyForecasts.splice(existingIndex, 1)
Splice1(fs, i) == [k \in 1..(Len(fs) - 1) |-> IF k < i THEN fs[k] ELSE fs[k + 1]]

AtCapacityOffByOne(fs) == Len(fs) > MaxDailyForecasts

AtCapacityNever(fs) == FALSE

\* dailyForecasts.length >= 7
AtCapacity(fs) == Len(fs) >= MaxDailyForecasts

\* one call of the forEach callback on the pair (dailyForecasts, processedDates)
ForEachBody(st, forecast, zone) ==
    LET date == forecast.dt * MsPerSecond
        dateStr == ToISODateString(date)
        hour == GetHours(date, zone)
        existingIndex == FindIndex(st.fs, dateStr)
        found == ProcessedHas(st.dates, dateStr) /\ existingIndex >= 1
        skip == found /\ KeepExisting(hour, ExistingHour(st.fs[existingIndex], zone))
        cleared == IF found /\ ~skip
                   THEN [fs |-> Splice1(st.fs, existingIndex), dates |-> st.dates \ {dateStr}]
                   ELSE st
    IN  IF skip THEN st
        ELSE IF AtCapacity(cleared.fs) THEN cleared
        ELSE [fs    |-> Append(cleared.fs, ToDailyForecast(forecast, zone)),
              dates |-> cleared.dates \cup {dateStr}]

\* the comparator of the final sort
CompareByDate(a, b) == ParseDateOnly(a.date) - ParseDateOnly(b.date)

RECURSIVE InsertSorted(_, _)
InsertSorted(sorted, f) ==
    IF sorted = <<>> THEN <<f>>
    ELSE IF CompareByDate(sorted[Len(sorted)], f) <= 0 THEN Append(sorted, f)
    ELSE Append(InsertSorted(SubSeq(sorted, 1, Len(sorted) - 1), f), sorted[Len(sorted)])

RECURSIVE SortFrom(_, _)
SortFrom(sorted, rest) ==
    IF rest = <<>> THEN sorted ELSE SortFrom(InsertSorted(sorted, Head(rest)), Tail(rest))

SortByDateOmitted(fs) == fs

\* dailyForecasts.sort((a, b) => new Date(a.date).getTime() - new Date(b.date).getTime()), stable
SortByDate(fs) == SortFrom(<<>>, fs)

-----------------------------------------------------------------------------
(* Inputs *)

\* a sample at the given instant (in seconds) whose other fields depend on k
MkForecast(dt, k) ==
    [ dt         |-> dt,
      main       |-> [temp     |-> (150 + 7 * k) * 1000,
                      temp_min |-> (120 + 7 * k) * 1000,
                      temp_max |-> (200 + 7 * k) * 1000,
                      pressure |-> 1000 + k, humidity |-> 40 + k],
      weather    |-> << [main |-> IF k % 2 = 0 THEN "Clouds" ELSE "Clear"] >>,
      clouds     |-> [all |-> (15 * k) % 101],
      wind       |-> [speed |-> k, deg |-> (50 * k) % 360],
      visibility |-> 10000 - 300 * k,
      rain       |-> IF k % 3 = 1 THEN <<k>> ELSE <<>>,
      snow       |-> IF k % 3 = 2 THEN <<1>> ELSE <<>> ]

\* instant, in seconds, of hour h of epoch day d (UTC)
At(d, h) == d * 86400 + h * 3600

\* the list whose k-th sample is at instant sched[k]
MkList(sched) == [k \in 1..Len(sched) |-> MkForecast(sched[k], k)]

ShortInstants == {At(d, h) : d \in ShortDays, h \in HourSet}

ShortSchedules == UNION {[1..n -> ShortInstants] : n \in 0..MaxLen}

\* the days 0..LongDays-1 in ascending order from day r, wrapping around
Rotation(r) == [k \in 1..LongDays |-> (r + k - 1) % LongDays]

Reversed(s) == [k \in 1..Len(s) |-> s[Len(s) + 1 - k]]

DayOrders == {Rotation(r) : r \in 0..(LongDays - 1)} \cup {Reversed(Rotation(r)) : r \in 0..(LongDays - 1)}

\* one sample per day at hour h in the order o, then the samples of tail
LongSchedules ==
    { [k \in 1..LongDays |-> At(o[k], h)] \o tail :
        o \in DayOrders, h \in HourSet,
        tail \in {<<>>} \cup {<<At(d, g)>> : d \in 0..(LongDays - 1), g \in HourSet} }

InputLists == {MkList(s) : s \in ShortSchedules \cup LongSchedules}

-----------------------------------------------------------------------------
(* The aggregation as a state machine: one step per sample, then the sort *)

\* no call of fetchWeatherData is under way
FetchIdle ==
    /\ apiKey = "demo_key"
    /\ lat = 0
    /\ lon = 0
    /\ now = 0
    /\ fpc = "idle"
    /\ requests = 0
    /\ response = "none"
    /\ body = "none"
    /\ result = <<>>

\* processWeatherData entered with data.list = l in a browser at offset zone
AggStart(zone, l) ==
    /\ tz = zone
    /\ list = l
    /\ idx = 1
    /\ dailyForecasts = <<>>
    /\ processedDates = {}
    /\ pc = "forEach"

Init ==
    /\ \E zone \in TzOffsets, l \in InputLists : AggStart(zone, l)
    /\ FetchIdle
    /\ RestIdle

ForEachStep ==
    /\ pc = "forEach"
    /\ idx <= Len(list)
    /\ LET st == ForEachBody([fs |-> dailyForecasts, dates |-> processedDates], list[idx], tz)
       IN  /\ dailyForecasts' = st.fs
           /\ processedDates' = st.dates
    /\ idx' = idx + 1
    /\ UNCHANGED <<tz, list, pc>>
    /\ UNCHANGED <<fetchVars, restVars>>

SortAndReturn ==
    /\ pc = "forEach"
    /\ idx > Len(list)
    /\ dailyForecasts' = SortByDate(dailyForecasts)
    /\ pc' = "done"
    /\ UNCHANGED <<tz, list, idx, processedDates>>
    /\ UNCHANGED <<fetchVars, restVars>>

Next == ForEachStep \/ SortAndReturn

Spec == Init /\ [][Next]_vars

-----------------------------------------------------------------------------
(* The aggregation of one sample, its converted fields drawn from bounded  *)
(* sets: the unit conversions as applied by the pass                       *)

OptionalAmounts == {<<>>, <<0>>, <<1>>, <<2>>}
VisibilitySet == {0, 499, 500, 1499, 10000}

UnitForecast(rain, snow, speed, pct, metres) ==
    [MkForecast(At(0, 12), 1) EXCEPT
        !.rain = rain, !.snow = snow, !.wind.speed = speed,
        !.clouds.all = pct, !.visibility = metres]

UnitLists ==
    { << UnitForecast(rain, snow, speed, pct, metres) >> :
        rain \in OptionalAmounts \ {<<1>>}, snow \in OptionalAmounts \ {<<2>>},
        speed \in 0..MaxWindSpeed, pct \in 0..MaxCloudPct, metres \in VisibilitySet }

InitUnits ==
    /\ \E l \in UnitLists : AggStart(0, l)
    /\ FetchIdle
    /\ RestIdle

SpecUnits == InitUnits /\ [][Next]_vars

-----------------------------------------------------------------------------
(* fetchWeatherData and getDemoWeatherData *)

\* weatherApi.ts:5  const API_KEY = 'demo_key' is the placeholder; the other
\* keys are configurations the comment on lines 3-4 asks for
\* (of 10, 11 and 32 characters)
ApiKeys == {"demo_key", "0123456789", "0123456789a", "0123456789abcdef0123456789abcdef"}

\* API_KEY !== 'demo_key' && API_KEY.length > 10
hasValidApiKey(key) == key # "demo_key" /\ Len(key) > 10

\* weatherApi.ts:526  for (let i = 0; i < 40; i++)
DemoSamples == 40

\* weatherApi.ts:527  i * 3 * 60 * 60 * 1000
DemoStepMs == 10800000

DemoConditions == <<"Clear", "Clouds", "Clouds", "Rain", "Clouds", "Thunderstorm", "Snow", "Mist">>

\* 18 + Math.sin(i * 0.3) * 8 for i = 0..39, in 1/10000 of a degree, rounded up:
\* with offsets that are draws k/n of Math.random() every temperature of the
\* model lies in the interval the draws of the code range over
DemoBaseTemp ==
    << 180000, 203642, 225172, 242667, 254564, 259800, 257908, 249057, 234038, 214191,
       191290, 167381, 144599, 124979, 110274, 101798, 100307, 105935, 118179, 135946,
       157647, 181346, 204924, 226276, 243494, 255040, 259884, 257592, 248368, 233038,
       212970, 189957, 166054, 143398, 124011, 109625, 101526, 100436, 106454, 119042 >>

\* Math.random() drawing k/n, which is below 1: the operator gives k in
\* 0..n-1 (Math.floor(Math.random() * n)) for the j-th draw of iteration i of the run
\* of the generator selected by seed (each seed is one outcome of the draws)
RandomInt(seed, i, j, n) == (seed * 31 + i * 7 + j * 3 + i * j) % n

\* the sample of iteration i (0-based) of the loop of getDemoWeatherData
DemoForecast(t, seed, i) ==
    LET condition == DemoConditions[RandomInt(seed, i, 0, 8) + 1]
        baseTemp == DemoBaseTemp[i + 1]
    IN  [ dt         |-> (t + i * DemoStepMs) \div MsPerSecond,
          \* (Math.random() - 0.5) * 4 is (k - 20) / 10 for the draw k/40, and
          \* (Math.random() - 0.5) * 2 is (k - 10) / 10 for the draw k/20
          main       |-> [temp     |-> baseTemp + (RandomInt(seed, i, 1, 40) - 20) * 1000,
                          temp_min |-> baseTemp - 30000 + (RandomInt(seed, i, 2, 20) - 10) * 1000,
                          temp_max |-> baseTemp + 50000 + (RandomInt(seed, i, 3, 20) - 10) * 1000,
                          pressure |-> 1003 + RandomInt(seed, i, 4, 20),
                          humidity |-> 45 + RandomInt(seed, i, 5, 40)],
          weather    |-> << [main |-> condition] >>,
          clouds     |-> [all |-> RandomInt(seed, i, 6, 100)],
          wind       |-> [speed |-> 1 + RandomInt(seed, i, 7, 8), deg |-> RandomInt(seed, i, 8, 360)],
          visibility |-> 8000 + RandomInt(seed, i, 9, 4000),
          rain       |-> IF condition = "Rain" THEN <<RandomInt(seed, i, 10, 3)>> ELSE <<>>,
          snow       |-> IF condition = "Snow" THEN <<RandomInt(seed, i, 11, 2)>> ELSE <<>> ]

getDemoWeatherData(la, lo, t, seed) ==
    [ cod     |-> "200",
      message |-> 0,
      cnt     |-> 40,
      list    |-> [k \in 1..DemoSamples |-> DemoForecast(t, seed, k - 1)],
      city    |-> [id |-> 1, name |-> "Demo City", coord |-> [lat |-> la, lon |-> lo],
                   country |-> "XX", population |-> 1000000, timezone |-> 0,
                   sunrise |-> t \div MsPerSecond, sunset |-> t \div MsPerSecond + 12 * 3600] ]

\* how a promise settles
Resolved(value) == [state |-> "resolved", value |-> value]
Rejected(reason) == [state |-> "rejected", value |-> reason]

\* lines 99-102: no valid key, the demo data is returned at once
OnNoApiKey(la, lo, t, seed) == Resolved(getDemoWeatherData(la, lo, t, seed))

\* lines 109-112: a response that is not ok
OnResponseNotOk(la, lo, t, seed) == Resolved(getDemoWeatherData(la, lo, t, seed))

OnCatchRethrows(la, lo, t, seed, thrown) == Rejected(thrown)

\* lines 116-119: the catch clause, for a throwing fetch or a throwing response.json()
OnCatch(la, lo, t, seed, thrown) == Resolved(getDemoWeatherData(la, lo, t, seed))

\* lines 114-115: the decoded body is returned as it is
OnDecoded(data) == Resolved(data)

\* bounded inputs of the call
Coordinates == {<<52, 13>>, <<40, -74>>, <<-34, 151>>}
Clocks == {0, 50400123}
Seeds == {0, 1, 2}

\* bodies a success response can decode to: a forecast, and a body without a sample list
ResponseBodies ==
    { [cod |-> "200", message |-> 0, cnt |-> 2,
       list |-> MkList(<<At(0, 9), At(0, 12)>>),
       city |-> [id |-> 2950159, name |-> "Berlin", coord |-> [lat |-> 52, lon |-> 13],
                 country |-> "DE", population |-> 1000000, timezone |-> 3600,
                 sunrise |-> 21600, sunset |-> 64800]],
      [cod |-> "200", message |-> 0] }

\* processWeatherData is not running
AggIdle ==
    /\ tz = 0
    /\ list = <<>>
    /\ idx = 1
    /\ dailyForecasts = <<>>
    /\ processedDates = {}
    /\ pc = "idle"

\* fetchWeatherData(lat, lon) has been called
InitFetch ==
    /\ AggIdle
    /\ RestIdle
    /\ apiKey \in ApiKeys
    /\ \E c \in Coordinates : lat = c[1] /\ lon = c[2]
    /\ now \in Clocks
    /\ fpc = "called"
    /\ requests = 0
    /\ response = "none"
    /\ body = "none"
    /\ result = <<>>

Settle(settlement) ==
    /\ fpc' = settlement.state
    /\ result' = settlement.value

\* lines 99-102
ReturnDemoWithoutKey ==
    /\ fpc = "called"
    /\ ~hasValidApiKey(apiKey)
    /\ \E seed \in Seeds : Settle(OnNoApiKey(lat, lon, now, seed))
    /\ UNCHANGED <<apiKey, lat, lon, now, requests, response, body>>
    /\ UNCHANGED <<aggVars, restVars>>

\* lines 104-107: the request is issued and awaited
IssueRequest ==
    /\ fpc = "called"
    /\ hasValidApiKey(apiKey)
    /\ requests' = requests + 1
    /\ fpc' = "awaitFetch"
    /\ UNCHANGED <<apiKey, lat, lon, now, response, body, result>>
    /\ UNCHANGED <<aggVars, restVars>>

\* line 109 with response.ok: response.json() is awaited
ResponseOk ==
    /\ fpc = "awaitFetch"
    /\ response' = "ok"
    /\ fpc' = "awaitJson"
    /\ UNCHANGED <<apiKey, lat, lon, now, requests, body, result>>
    /\ UNCHANGED <<aggVars, restVars>>

\* lines 109-112
ResponseNotOk ==
    /\ fpc = "awaitFetch"
    /\ response' = "notOk"
    /\ \E seed \in Seeds : Settle(OnResponseNotOk(lat, lon, now, seed))
    /\ UNCHANGED <<apiKey, lat, lon, now, requests, body>>
    /\ UNCHANGED <<aggVars, restVars>>

\* the awaited fetch throws: lines 116-119
RequestThrows ==
    /\ fpc = "awaitFetch"
    /\ response' = "throws"
    /\ \E seed \in Seeds : Settle(OnCatch(lat, lon, now, seed, "TypeError: Failed to fetch"))
    /\ UNCHANGED <<apiKey, lat, lon, now, requests, body>>
    /\ UNCHANGED <<aggVars, restVars>>

\* lines 114-115
JsonDecoded ==
    /\ fpc = "awaitJson"
    /\ body' = "ok"
    /\ \E data \in ResponseBodies : Settle(OnDecoded(data))
    /\ UNCHANGED <<apiKey, lat, lon, now, requests, response>>
    /\ UNCHANGED <<aggVars, restVars>>

\* the awaited response.json() throws: lines 116-119
JsonThrows ==
    /\ fpc = "awaitJson"
    /\ body' = "throws"
    /\ \E seed \in Seeds : Settle(OnCatch(lat, lon, now, seed, "SyntaxError: Unexpected token"))
    /\ UNCHANGED <<apiKey, lat, lon, now, requests, response>>
    /\ UNCHANGED <<aggVars, restVars>>

NextFetch ==
    \/ ReturnDemoWithoutKey
    \/ IssueRequest
    \/ ResponseOk
    \/ ResponseNotOk
    \/ RequestThrows
    \/ JsonDecoded
    \/ JsonThrows

SpecFetch == InitFetch /\ [][NextFetch]_vars

-----------------------------------------------------------------------------
(* Strings: String.prototype.toLowerCase, includes, startsWith and          *)
(* localeCompare on the characters of the bundled city list                *)

UpperCaseLetters == "ABCDEFGHIJKLMNOPQRSTUVWXYZÁÃÉÍÓ"
LowerCaseLetters == "abcdefghijklmnopqrstuvwxyzáãéíó"

\* position of the one-character string c in the string letters, 0 when absent
IndexOfChar(letters, c) ==
    IF \E i \in 1..Len(letters) : SubSeq(letters, i, i) = c
    THEN CHOOSE i \in 1..Len(letters) : SubSeq(letters, i, i) = c
    ELSE 0

LowerChar(c) ==
    LET i == IndexOfChar(UpperCaseLetters, c)
    IN  IF i > 0 THEN SubSeq(LowerCaseLetters, i, i) ELSE c

RECURSIVE toLowerCase(_)
toLowerCase(s) ==
    IF s = "" THEN "" ELSE LowerChar(SubSeq(s, 1, 1)) \o toLowerCase(SubSeq(s, 2, Len(s)))

\* s.includes(q)
includes(s, q) == \E i \in 0..(Len(s) - Len(q)) : SubSeq(s, i + 1, i + Len(q)) = q

\* s.startsWith(q)
startsWith(s, q) == Len(q) <= Len(s) /\ SubSeq(s, 1, Len(q)) = q

\* collation of lower-case strings: base letters first (space and apostrophe
\* before the letters), accents only when the base letters are equal
CollationOrder == " 'abcdefghijklmnopqrstuvwxyz"
AccentedLetters == "áãéíó"
BaseLetters == "aaeio"

BaseChar(c) ==
    LET i == IndexOfChar(AccentedLetters, c)
    IN  IF i > 0 THEN SubSeq(BaseLetters, i, i) ELSE c

RECURSIVE ComparePrimary(_, _)
ComparePrimary(a, b) ==
    IF a = "" THEN (IF b = "" THEN 0 ELSE -1)
    ELSE IF b = "" THEN 1
    ELSE LET x == IndexOfChar(CollationOrder, BaseChar(SubSeq(a, 1, 1)))
             y == IndexOfChar(CollationOrder, BaseChar(SubSeq(b, 1, 1)))
         IN  IF x # y THEN x - y
             ELSE ComparePrimary(SubSeq(a, 2, Len(a)), SubSeq(b, 2, Len(b)))

RECURSIVE CompareAccents(_, _)
CompareAccents(a, b) ==
    IF a = "" \/ b = "" THEN 0
    ELSE LET x == IndexOfChar(AccentedLetters, SubSeq(a, 1, 1))
             y == IndexOfChar(AccentedLetters, SubSeq(b, 1, 1))
         IN  IF x # y THEN x - y
             ELSE CompareAccents(SubSeq(a, 2, Len(a)), SubSeq(b, 2, Len(b)))

\* a.localeCompare(b): negative, zero or positive
localeCompare(a, b) ==
    IF ComparePrimary(a, b) # 0 THEN ComparePrimary(a, b) ELSE CompareAccents(a, b)

-----------------------------------------------------------------------------
(* The bundled city list of getGlobalDemoCities, in its order; a missing    *)
(* state is the empty string, latitude and longitude are in 1/10000 degree *)

globalCities ==
    <<
      [name |-> "Lagos", country |-> "NG", state |-> "Lagos", lat |-> 65244, lon |-> 33792],
      [name |-> "Cairo", country |-> "EG", state |-> "", lat |-> 300444, lon |-> 312357],
      [name |-> "Cape Town", country |-> "ZA", state |-> "Western Cape", lat |-> -339249, lon |-> 184241],
      [name |-> "Nairobi", country |-> "KE", state |-> "", lat |-> -12921, lon |-> 368219],
      [name |-> "Casablanca", country |-> "MA", state |-> "", lat |-> 335731, lon |-> -75898],
      [name |-> "Johannesburg", country |-> "ZA", state |-> "Gauteng", lat |-> -262041, lon |-> 280473],
      [name |-> "Addis Ababa", country |-> "ET", state |-> "", lat |-> 91450, lon |-> 404897],
      [name |-> "Accra", country |-> "GH", state |-> "", lat |-> 56037, lon |-> -1870],
      [name |-> "Tunis", country |-> "TN", state |-> "", lat |-> 368065, lon |-> 101815],
      [name |-> "Algiers", country |-> "DZ", state |-> "", lat |-> 367538, lon |-> 30588],
      [name |-> "Tokyo", country |-> "JP", state |-> "", lat |-> 356762, lon |-> 1396503],
      [name |-> "Mumbai", country |-> "IN", state |-> "Maharashtra", lat |-> 190760, lon |-> 728777],
      [name |-> "Beijing", country |-> "CN", state |-> "", lat |-> 399042, lon |-> 1164074],
      [name |-> "Shanghai", country |-> "CN", state |-> "", lat |-> 312304, lon |-> 1214737],
      [name |-> "Delhi", country |-> "IN", state |-> "", lat |-> 287041, lon |-> 771025],
      [name |-> "Bangkok", country |-> "TH", state |-> "", lat |-> 137563, lon |-> 1005018],
      [name |-> "Seoul", country |-> "KR", state |-> "", lat |-> 375665, lon |-> 1269780],
      [name |-> "Jakarta", country |-> "ID", state |-> "", lat |-> -62088, lon |-> 1068456],
      [name |-> "Manila", country |-> "PH", state |-> "", lat |-> 145995, lon |-> 1209842],
      [name |-> "Singapore", country |-> "SG", state |-> "", lat |-> 13521, lon |-> 1038198],
      [name |-> "Kuala Lumpur", country |-> "MY", state |-> "", lat |-> 31390, lon |-> 1016869],
      [name |-> "Ho Chi Minh City", country |-> "VN", state |-> "", lat |-> 108231, lon |-> 1066297],
      [name |-> "Dhaka", country |-> "BD", state |-> "", lat |-> 238103, lon |-> 904125],
      [name |-> "Karachi", country |-> "PK", state |-> "Sindh", lat |-> 248607, lon |-> 670011],
      [name |-> "Tehran", country |-> "IR", state |-> "", lat |-> 356892, lon |-> 513890],
      [name |-> "Riyadh", country |-> "SA", state |-> "", lat |-> 247136, lon |-> 466753],
      [name |-> "Dubai", country |-> "AE", state |-> "", lat |-> 252048, lon |-> 552708],
      [name |-> "London", country |-> "GB", state |-> "England", lat |-> 515074, lon |-> -1278],
      [name |-> "Paris", country |-> "FR", state |-> "", lat |-> 488566, lon |-> 23522],
      [name |-> "Berlin", country |-> "DE", state |-> "", lat |-> 525200, lon |-> 134050],
      [name |-> "Madrid", country |-> "ES", state |-> "", lat |-> 404168, lon |-> -37038],
      [name |-> "Rome", country |-> "IT", state |-> "", lat |-> 419028, lon |-> 124964],
      [name |-> "Amsterdam", country |-> "NL", state |-> "", lat |-> 523676, lon |-> 49041],
      [name |-> "Vienna", country |-> "AT", state |-> "", lat |-> 482082, lon |-> 163738],
      [name |-> "Prague", country |-> "CZ", state |-> "", lat |-> 500755, lon |-> 144378],
      [name |-> "Stockholm", country |-> "SE", state |-> "", lat |-> 593293, lon |-> 180686],
      [name |-> "Copenhagen", country |-> "DK", state |-> "", lat |-> 556761, lon |-> 125683],
      [name |-> "Brussels", country |-> "BE", state |-> "", lat |-> 508503, lon |-> 43517],
      [name |-> "Zurich", country |-> "CH", state |-> "", lat |-> 473769, lon |-> 85417],
      [name |-> "Oslo", country |-> "NO", state |-> "", lat |-> 599139, lon |-> 107522],
      [name |-> "Helsinki", country |-> "FI", state |-> "", lat |-> 601699, lon |-> 249384],
      [name |-> "Warsaw", country |-> "PL", state |-> "", lat |-> 522297, lon |-> 210122],
      [name |-> "Budapest", country |-> "HU", state |-> "", lat |-> 474979, lon |-> 190402],
      [name |-> "Athens", country |-> "GR", state |-> "", lat |-> 379838, lon |-> 237275],
      [name |-> "Lisbon", country |-> "PT", state |-> "", lat |-> 387223, lon |-> -91393],
      [name |-> "Dublin", country |-> "IE", state |-> "", lat |-> 533498, lon |-> -62603],
      [name |-> "Edinburgh", country |-> "GB", state |-> "Scotland", lat |-> 559533, lon |-> -31883],
      [name |-> "Barcelona", country |-> "ES", state |-> "Catalonia", lat |-> 413851, lon |-> 21734],
      [name |-> "Milan", country |-> "IT", state |-> "Lombardy", lat |-> 454642, lon |-> 91900],
      [name |-> "Munich", country |-> "DE", state |-> "Bavaria", lat |-> 481351, lon |-> 115820],
      [name |-> "Kiev", country |-> "UA", state |-> "", lat |-> 504501, lon |-> 305234],
      [name |-> "Moscow", country |-> "RU", state |-> "", lat |-> 557558, lon |-> 376176],
      [name |-> "Istanbul", country |-> "TR", state |-> "", lat |-> 410082, lon |-> 289784],
      [name |-> "New York", country |-> "US", state |-> "New York", lat |-> 407128, lon |-> -740060],
      [name |-> "Los Angeles", country |-> "US", state |-> "California", lat |-> 340522, lon |-> -1182437],
      [name |-> "Chicago", country |-> "US", state |-> "Illinois", lat |-> 418781, lon |-> -876298],
      [name |-> "Toronto", country |-> "CA", state |-> "Ontario", lat |-> 436532, lon |-> -793832],
      [name |-> "Vancouver", country |-> "CA", state |-> "British Columbia", lat |-> 492827, lon |-> -1231207],
      [name |-> "Montreal", country |-> "CA", state |-> "Quebec", lat |-> 455017, lon |-> -735673],
      [name |-> "Mexico City", country |-> "MX", state |-> "", lat |-> 194326, lon |-> -991332],
      [name |-> "Miami", country |-> "US", state |-> "Florida", lat |-> 257617, lon |-> -801918],
      [name |-> "San Francisco", country |-> "US", state |-> "California", lat |-> 377749, lon |-> -1224194],
      [name |-> "Washington", country |-> "US", state |-> "District of Columbia", lat |-> 389072, lon |-> -770369],
      [name |-> "Boston", country |-> "US", state |-> "Massachusetts", lat |-> 423601, lon |-> -710589],
      [name |-> "Seattle", country |-> "US", state |-> "Washington", lat |-> 476062, lon |-> -1223321],
      [name |-> "Las Vegas", country |-> "US", state |-> "Nevada", lat |-> 361699, lon |-> -1151398],
      [name |-> "Phoenix", country |-> "US", state |-> "Arizona", lat |-> 334484, lon |-> -1120740],
      [name |-> "Denver", country |-> "US", state |-> "Colorado", lat |-> 397392, lon |-> -1049903],
      [name |-> "Atlanta", country |-> "US", state |-> "Georgia", lat |-> 337490, lon |-> -843880],
      [name |-> "Dallas", country |-> "US", state |-> "Texas", lat |-> 327767, lon |-> -967970],
      [name |-> "Houston", country |-> "US", state |-> "Texas", lat |-> 297604, lon |-> -953698],
      [name |-> "Philadelphia", country |-> "US", state |-> "Pennsylvania", lat |-> 399526, lon |-> -751652],
      [name |-> "Detroit", country |-> "US", state |-> "Michigan", lat |-> 423314, lon |-> -830458],
      [name |-> "Minneapolis", country |-> "US", state |-> "Minnesota", lat |-> 449778, lon |-> -932650],
      [name |-> "San Diego", country |-> "US", state |-> "California", lat |-> 327157, lon |-> -1171611],
      [name |-> "Portland", country |-> "US", state |-> "Oregon", lat |-> 455152, lon |-> -1226784],
      [name |-> "Nashville", country |-> "US", state |-> "Tennessee", lat |-> 361627, lon |-> -867816],
      [name |-> "New Orleans", country |-> "US", state |-> "Louisiana", lat |-> 299511, lon |-> -900715],
      [name |-> "Calgary", country |-> "CA", state |-> "Alberta", lat |-> 510447, lon |-> -1140719],
      [name |-> "Ottawa", country |-> "CA", state |-> "Ontario", lat |-> 454215, lon |-> -756972],
      [name |-> "Winnipeg", country |-> "CA", state |-> "Manitoba", lat |-> 498951, lon |-> -971384],
      [name |-> "Edmonton", country |-> "CA", state |-> "Alberta", lat |-> 535461, lon |-> -1134938],
      [name |-> "Quebec City", country |-> "CA", state |-> "Quebec", lat |-> 468139, lon |-> -712080],
      [name |-> "Halifax", country |-> "CA", state |-> "Nova Scotia", lat |-> 446488, lon |-> -635752],
      [name |-> "Guadalajara", country |-> "MX", state |-> "Jalisco", lat |-> 206597, lon |-> -1033496],
      [name |-> "Monterrey", country |-> "MX", state |-> "Nuevo León", lat |-> 256866, lon |-> -1003161],
      [name |-> "Puebla", country |-> "MX", state |-> "Puebla", lat |-> 190414, lon |-> -982063],
      [name |-> "Tijuana", country |-> "MX", state |-> "Baja California", lat |-> 325149, lon |-> -1170382],
      [name |-> "São Paulo", country |-> "BR", state |-> "São Paulo", lat |-> -235505, lon |-> -466333],
      [name |-> "Rio de Janeiro", country |-> "BR", state |-> "Rio de Janeiro", lat |-> -229068, lon |-> -431729],
      [name |-> "Buenos Aires", country |-> "AR", state |-> "", lat |-> -346118, lon |-> -583960],
      [name |-> "Lima", country |-> "PE", state |-> "", lat |-> -120464, lon |-> -770428],
      [name |-> "Bogotá", country |-> "CO", state |-> "", lat |-> 47110, lon |-> -740721],
      [name |-> "Santiago", country |-> "CL", state |-> "", lat |-> -334489, lon |-> -706693],
      [name |-> "Caracas", country |-> "VE", state |-> "", lat |-> 104806, lon |-> -669036],
      [name |-> "Quito", country |-> "EC", state |-> "", lat |-> -1807, lon |-> -784678],
      [name |-> "La Paz", country |-> "BO", state |-> "", lat |-> -165000, lon |-> -681193],
      [name |-> "Montevideo", country |-> "UY", state |-> "", lat |-> -349011, lon |-> -561645],
      [name |-> "Asunción", country |-> "PY", state |-> "", lat |-> -252637, lon |-> -575759],
      [name |-> "Georgetown", country |-> "GY", state |-> "", lat |-> 68013, lon |-> -581551],
      [name |-> "Paramaribo", country |-> "SR", state |-> "", lat |-> 58520, lon |-> -552038],
      [name |-> "Brasília", country |-> "BR", state |-> "Distrito Federal", lat |-> -158267, lon |-> -479218],
      [name |-> "Salvador", country |-> "BR", state |-> "Bahia", lat |-> -129714, lon |-> -385014],
      [name |-> "Fortaleza", country |-> "BR", state |-> "Ceará", lat |-> -37319, lon |-> -385267],
      [name |-> "Belo Horizonte", country |-> "BR", state |-> "Minas Gerais", lat |-> -199191, lon |-> -439386],
      [name |-> "Manaus", country |-> "BR", state |-> "Amazonas", lat |-> -31190, lon |-> -600217],
      [name |-> "Recife", country |-> "BR", state |-> "Pernambuco", lat |-> -80476, lon |-> -348770],
      [name |-> "Porto Alegre", country |-> "BR", state |-> "Rio Grande do Sul", lat |-> -300346, lon |-> -512177],
      [name |-> "Curitiba", country |-> "BR", state |-> "Paraná", lat |-> -254284, lon |-> -492733],
      [name |-> "Córdoba", country |-> "AR", state |-> "Córdoba", lat |-> -314201, lon |-> -641888],
      [name |-> "Rosario", country |-> "AR", state |-> "Santa Fe", lat |-> -329442, lon |-> -606505],
      [name |-> "Mendoza", country |-> "AR", state |-> "Mendoza", lat |-> -328895, lon |-> -688458],
      [name |-> "Mar del Plata", country |-> "AR", state |-> "Buenos Aires", lat |-> -380023, lon |-> -575575],
      [name |-> "Medellín", country |-> "CO", state |-> "Antioquia", lat |-> 62442, lon |-> -755812],
      [name |-> "Cali", country |-> "CO", state |-> "Valle del Cauca", lat |-> 34516, lon |-> -765320],
      [name |-> "Barranquilla", country |-> "CO", state |-> "Atlántico", lat |-> 109639, lon |-> -747964],
      [name |-> "Cartagena", country |-> "CO", state |-> "Bolívar", lat |-> 103910, lon |-> -754794],
      [name |-> "Valparaíso", country |-> "CL", state |-> "Valparaíso", lat |-> -330472, lon |-> -716127],
      [name |-> "Concepción", country |-> "CL", state |-> "Biobío", lat |-> -368270, lon |-> -730498],
      [name |-> "Antofagasta", country |-> "CL", state |-> "Antofagasta", lat |-> -236509, lon |-> -703975],
      [name |-> "Arequipa", country |-> "PE", state |-> "Arequipa", lat |-> -164090, lon |-> -715375],
      [name |-> "Trujillo", country |-> "PE", state |-> "La Libertad", lat |-> -81116, lon |-> -790287],
      [name |-> "Chiclayo", country |-> "PE", state |-> "Lambayeque", lat |-> -67714, lon |-> -798374],
      [name |-> "Guayaquil", country |-> "EC", state |-> "Guayas", lat |-> -21894, lon |-> -798890],
      [name |-> "Cuenca", country |-> "EC", state |-> "Azuay", lat |-> -29001, lon |-> -790059],
      [name |-> "Maracaibo", country |-> "VE", state |-> "Zulia", lat |-> 106666, lon |-> -716124],
      [name |-> "Valencia", country |-> "VE", state |-> "Carabobo", lat |-> 101621, lon |-> -680077],
      [name |-> "Barquisimeto", country |-> "VE", state |-> "Lara", lat |-> 100647, lon |-> -693570],
      [name |-> "Santa Cruz", country |-> "BO", state |-> "Santa Cruz", lat |-> -177833, lon |-> -631821],
      [name |-> "Cochabamba", country |-> "BO", state |-> "Cochabamba", lat |-> -173895, lon |-> -661568],
      [name |-> "Sucre", country |-> "BO", state |-> "Chuquisaca", lat |-> -190196, lon |-> -652619],
      [name |-> "Sydney", country |-> "AU", state |-> "New South Wales", lat |-> -338688, lon |-> 1512093],
      [name |-> "Melbourne", country |-> "AU", state |-> "Victoria", lat |-> -378136, lon |-> 1449631],
      [name |-> "Brisbane", country |-> "AU", state |-> "Queensland", lat |-> -274698, lon |-> 1530251],
      [name |-> "Perth", country |-> "AU", state |-> "Western Australia", lat |-> -319505, lon |-> 1158605],
      [name |-> "Adelaide", country |-> "AU", state |-> "South Australia", lat |-> -349285, lon |-> 1386007],
      [name |-> "Auckland", country |-> "NZ", state |-> "", lat |-> -368485, lon |-> 1747633],
      [name |-> "Wellington", country |-> "NZ", state |-> "", lat |-> -412865, lon |-> 1747762],
      [name |-> "Christchurch", country |-> "NZ", state |-> "", lat |-> -435321, lon |-> 1726362],
      [name |-> "Hamilton", country |-> "NZ", state |-> "", lat |-> -377870, lon |-> 1752793],
      [name |-> "Tauranga", country |-> "NZ", state |-> "", lat |-> -376878, lon |-> 1761651],
      [name |-> "Canberra", country |-> "AU", state |-> "Australian Capital Territory", lat |-> -352809, lon |-> 1491300],
      [name |-> "Gold Coast", country |-> "AU", state |-> "Queensland", lat |-> -280167, lon |-> 1534000],
      [name |-> "Newcastle", country |-> "AU", state |-> "New South Wales", lat |-> -329283, lon |-> 1517817],
      [name |-> "Wollongong", country |-> "AU", state |-> "New South Wales", lat |-> -344278, lon |-> 1508931],
      [name |-> "Hobart", country |-> "AU", state |-> "Tasmania", lat |-> -428821, lon |-> 1473272],
      [name |-> "Darwin", country |-> "AU", state |-> "Northern Territory", lat |-> -124634, lon |-> 1308456],
      [name |-> "Cairns", country |-> "AU", state |-> "Queensland", lat |-> -169186, lon |-> 1457781],
      [name |-> "Townsville", country |-> "AU", state |-> "Queensland", lat |-> -192590, lon |-> 1468169],
      [name |-> "Geelong", country |-> "AU", state |-> "Victoria", lat |-> -381499, lon |-> 1443617],
      [name |-> "Ballarat", country |-> "AU", state |-> "Victoria", lat |-> -375622, lon |-> 1438503],
      [name |-> "Bendigo", country |-> "AU", state |-> "Victoria", lat |-> -367570, lon |-> 1442794],
      [name |-> "Albury", country |-> "AU", state |-> "New South Wales", lat |-> -360737, lon |-> 1469135],
      [name |-> "Launceston", country |-> "AU", state |-> "Tasmania", lat |-> -414332, lon |-> 1471441],
      [name |-> "Mackay", country |-> "AU", state |-> "Queensland", lat |-> -211550, lon |-> 1491613],
      [name |-> "Rockhampton", country |-> "AU", state |-> "Queensland", lat |-> -233781, lon |-> 1505069],
      [name |-> "Bunbury", country |-> "AU", state |-> "Western Australia", lat |-> -333267, lon |-> 1156347],
      [name |-> "Bundaberg", country |-> "AU", state |-> "Queensland", lat |-> -248661, lon |-> 1523489],
      [name |-> "Wagga Wagga", country |-> "AU", state |-> "New South Wales", lat |-> -351082, lon |-> 1473598],
      [name |-> "Hervey Bay", country |-> "AU", state |-> "Queensland", lat |-> -252990, lon |-> 1528526],
      [name |-> "Mildura", country |-> "AU", state |-> "Victoria", lat |-> -342087, lon |-> 1421386],
      [name |-> "Shepparton", country |-> "AU", state |-> "Victoria", lat |-> -363820, lon |-> 1453989],
      [name |-> "Gladstone", country |-> "AU", state |-> "Queensland", lat |-> -238449, lon |-> 1512661],
      [name |-> "Tamworth", country |-> "AU", state |-> "New South Wales", lat |-> -310927, lon |-> 1509279],
      [name |-> "Orange", country |-> "AU", state |-> "New South Wales", lat |-> -332839, lon |-> 1490988],
      [name |-> "Dubbo", country |-> "AU", state |-> "New South Wales", lat |-> -322431, lon |-> 1486017],
      [name |-> "Geraldton", country |-> "AU", state |-> "Western Australia", lat |-> -287774, lon |-> 1146145],
      [name |-> "Kalgoorlie", country |-> "AU", state |-> "Western Australia", lat |-> -307333, lon |-> 1214667],
      [name |-> "Port Macquarie", country |-> "AU", state |-> "New South Wales", lat |-> -314333, lon |-> 1529000],
      [name |-> "Warrnambool", country |-> "AU", state |-> "Victoria", lat |-> -383833, lon |-> 1424833],
      [name |-> "Rotorua", country |-> "NZ", state |-> "", lat |-> -381368, lon |-> 1762497],
      [name |-> "Palmerston North", country |-> "NZ", state |-> "", lat |-> -403523, lon |-> 1756082],
      [name |-> "Hastings", country |-> "NZ", state |-> "", lat |-> -396381, lon |-> 1768413],
      [name |-> "Nelson", country |-> "NZ", state |-> "", lat |-> -412706, lon |-> 1732840],
      [name |-> "Invercargill", country |-> "NZ", state |-> "", lat |-> -464132, lon |-> 1683538],
      [name |-> "Whangarei", country |-> "NZ", state |-> "", lat |-> -357275, lon |-> 1743166],
      [name |-> "New Plymouth", country |-> "NZ", state |-> "", lat |-> -390579, lon |-> 1740806],
      [name |-> "Napier", country |-> "NZ", state |-> "", lat |-> -394928, lon |-> 1769120],
      [name |-> "Porirua", country |-> "NZ", state |-> "", lat |-> -411347, lon |-> 1748404],
      [name |-> "Upper Hutt", country |-> "NZ", state |-> "", lat |-> -411244, lon |-> 1750707],
      [name |-> "Kapiti", country |-> "NZ", state |-> "", lat |-> -409006, lon |-> 1750373],
      [name |-> "Blenheim", country |-> "NZ", state |-> "", lat |-> -415131, lon |-> 1739545],
      [name |-> "Masterton", country |-> "NZ", state |-> "", lat |-> -409597, lon |-> 1756575],
      [name |-> "Levin", country |-> "NZ", state |-> "", lat |-> -406214, lon |-> 1752870],
      [name |-> "Timaru", country |-> "NZ", state |-> "", lat |-> -443904, lon |-> 1712373],
      [name |-> "Oamaru", country |-> "NZ", state |-> "", lat |-> -450966, lon |-> 1709714],
      [name |-> "Ashburton", country |-> "NZ", state |-> "", lat |-> -439081, lon |-> 1717300],
      [name |-> "Greymouth", country |-> "NZ", state |-> "", lat |-> -424499, lon |-> 1712079],
      [name |-> "Westport", country |-> "NZ", state |-> "", lat |-> -417506, lon |-> 1716026],
      [name |-> "Hokitika", country |-> "NZ", state |-> "", lat |-> -427167, lon |-> 1709667],
      [name |-> "Franz Josef", country |-> "NZ", state |-> "", lat |-> -433833, lon |-> 1701833],
      [name |-> "Queenstown", country |-> "NZ", state |-> "", lat |-> -450312, lon |-> 1686626],
      [name |-> "Wanaka", country |-> "NZ", state |-> "", lat |-> -447000, lon |-> 1691500],
      [name |-> "Te Anau", country |-> "NZ", state |-> "", lat |-> -454167, lon |-> 1677167],
      [name |-> "Suva", country |-> "FJ", state |-> "", lat |-> -181248, lon |-> 1784501],
      [name |-> "Nadi", country |-> "FJ", state |-> "", lat |-> -177765, lon |-> 1774162],
      [name |-> "Lautoka", country |-> "FJ", state |-> "", lat |-> -176103, lon |-> 1774570],
      [name |-> "Labasa", country |-> "FJ", state |-> "", lat |-> -164333, lon |-> 1793667],
      [name |-> "Savusavu", country |-> "FJ", state |-> "", lat |-> -167833, lon |-> 1793167],
      [name |-> "Sigatoka", country |-> "FJ", state |-> "", lat |-> -181333, lon |-> 1775000],
      [name |-> "Ba", country |-> "FJ", state |-> "", lat |-> -175333, lon |-> 1776667],
      [name |-> "Tavua", country |-> "FJ", state |-> "", lat |-> -174667, lon |-> 1778833],
      [name |-> "Rakiraki", country |-> "FJ", state |-> "", lat |-> -173333, lon |-> 1782333],
      [name |-> "Korovou", country |-> "FJ", state |-> "", lat |-> -179167, lon |-> 1783333],
      [name |-> "Levuka", country |-> "FJ", state |-> "", lat |-> -176833, lon |-> 1788333],
      [name |-> "Nausori", country |-> "FJ", state |-> "", lat |-> -180333, lon |-> 1785500],
      [name |-> "Navua", country |-> "FJ", state |-> "", lat |-> -182333, lon |-> 1781667],
      [name |-> "Deuba", country |-> "FJ", state |-> "", lat |-> -183167, lon |-> 1780833],
      [name |-> "Pacific Harbour", country |-> "FJ", state |-> "", lat |-> -184000, lon |-> 1782500],
      [name |-> "Apia", country |-> "WS", state |-> "", lat |-> -138506, lon |-> -1717513],
      [name |-> "Salelologa", country |-> "WS", state |-> "", lat |-> -137333, lon |-> -1721833],
      [name |-> "Mulifanua", country |-> "WS", state |-> "", lat |-> -138333, lon |-> -1720000],
      [name |-> "Leulumoega", country |-> "WS", state |-> "", lat |-> -138167, lon |-> -1718500],
      [name |-> "Lufilufi", country |-> "WS", state |-> "", lat |-> -138667, lon |-> -1715833],
      [name |-> "Falealupo", country |-> "WS", state |-> "", lat |-> -135000, lon |-> -1727833],
      [name |-> "Asau", country |-> "WS", state |-> "", lat |-> -135333, lon |-> -1726333],
      [name |-> "Safotulafai", country |-> "WS", state |-> "", lat |-> -134333, lon |-> -1724833],
      [name |-> "Satupaitea", country |-> "WS", state |-> "", lat |-> -136500, lon |-> -1723500],
      [name |-> "Palauli", country |-> "WS", state |-> "", lat |-> -137500, lon |-> -1722500],
      [name |-> "Saleaula", country |-> "WS", state |-> "", lat |-> -136167, lon |-> -1721833],
      [name |-> "Samauga", country |-> "WS", state |-> "", lat |-> -137000, lon |-> -1721000],
      [name |-> "Fagamalo", country |-> "WS", state |-> "", lat |-> -137167, lon |-> -1720833],
      [name |-> "Manono", country |-> "WS", state |-> "", lat |-> -138167, lon |-> -1720833],
      [name |-> "Apolima", country |-> "WS", state |-> "", lat |-> -138000, lon |-> -1721167],
      [name |-> "Nuku'alofa", country |-> "TO", state |-> "", lat |-> -211385, lon |-> -1752206],
      [name |-> "Neiafu", country |-> "TO", state |-> "", lat |-> -186500, lon |-> -1739833],
      [name |-> "Pangai", country |-> "TO", state |-> "", lat |-> -198167, lon |-> -1743500],
      [name |-> "Ohonua", country |-> "TO", state |-> "", lat |-> -213333, lon |-> -1751833],
      [name |-> "Vaini", country |-> "TO", state |-> "", lat |-> -212000, lon |-> -1752000],
      [name |-> "Mu'a", country |-> "TO", state |-> "", lat |-> -211333, lon |-> -1751500],
      [name |-> "Tatakamotonga", country |-> "TO", state |-> "", lat |-> -211167, lon |-> -1751833],
      [name |-> "Lapaha", country |-> "TO", state |-> "", lat |-> -211500, lon |-> -1751667],
      [name |-> "Niutoua", country |-> "TO", state |-> "", lat |-> -211667, lon |-> -1751500],
      [name |-> "Kolonga", country |-> "TO", state |-> "", lat |-> -211000, lon |-> -1750833],
      [name |-> "Haveluliku", country |-> "TO", state |-> "", lat |-> -211833, lon |-> -1751333],
      [name |-> "Holonga", country |-> "TO", state |-> "", lat |-> -211500, lon |-> -1751000],
      [name |-> "Kolofo'ou", country |-> "TO", state |-> "", lat |-> -211333, lon |-> -1752167],
      [name |-> "Kolomotu'a", country |-> "TO", state |-> "", lat |-> -211333, lon |-> -1752000],
      [name |-> "Ma'ufanga", country |-> "TO", state |-> "", lat |-> -211500, lon |-> -1752167],
      [name |-> "Port Vila", country |-> "VU", state |-> "", lat |-> -177334, lon |-> 1683273],
      [name |-> "Luganville", country |-> "VU", state |-> "", lat |-> -155167, lon |-> 1671667],
      [name |-> "Isangel", country |-> "VU", state |-> "", lat |-> -195500, lon |-> 1692667],
      [name |-> "Sola", country |-> "VU", state |-> "", lat |-> -138833, lon |-> 1675500],
      [name |-> "Lenakel", country |-> "VU", state |-> "", lat |-> -195333, lon |-> 1692500],
      [name |-> "Lakatoro", country |-> "VU", state |-> "", lat |-> -161000, lon |-> 1674167],
      [name |-> "Norsup", country |-> "VU", state |-> "", lat |-> -160667, lon |-> 1674000],
      [name |-> "Saratamata", country |-> "VU", state |-> "", lat |-> -152667, lon |-> 1669833],
      [name |-> "Longana", country |-> "VU", state |-> "", lat |-> -153000, lon |-> 1678500],
      [name |-> "Loltong", country |-> "VU", state |-> "", lat |-> -151000, lon |-> 1677000],
      [name |-> "Port Olry", country |-> "VU", state |-> "", lat |-> -150833, lon |-> 1671167],
      [name |-> "Wala", country |-> "VU", state |-> "", lat |-> -156833, lon |-> 1673333],
      [name |-> "Rano", country |-> "VU", state |-> "", lat |-> -155500, lon |-> 1679500],
      [name |-> "Valesdir", country |-> "VU", state |-> "", lat |-> -154000, lon |-> 1678000],
      [name |-> "Redcliffe", country |-> "VU", state |-> "", lat |-> -154667, lon |-> 1678333]
    >>

\* weatherApi.ts:507  .slice(0, 15)
DemoSliceLimit == 15

Slice0Omitted(array, n) == array

\* array.slice(0, n)
Slice0(array, n) == SubSeq(array, 1, IF Len(array) < n THEN Len(array) ELSE n)

\* the predicate of the filter of getGlobalDemoCities
MatchesQuery(city, lowerQuery) ==
    \/ includes(toLowerCase(city.name), lowerQuery)
    \/ includes(toLowerCase(city.country), lowerQuery)
    \/ (city.state # "" /\ includes(toLowerCase(city.state), lowerQuery))

getGlobalDemoCities(query) ==
    LET lowerQuery == toLowerCase(query)
        Matches(city) == MatchesQuery(city, lowerQuery)
    IN  Slice0(SelectSeq(globalCities, Matches), DemoSliceLimit)

CityKeyNameOnly(city) == city.name

\* `${city.name}-${city.country}-${city.state || ''}`
CityKey(city) == city.name \o "-" \o city.country \o "-" \o city.state

RECURSIVE FilterUnseen(_, _)
FilterUnseen(cities, seen) ==
    IF cities = <<>> THEN <<>>
    ELSE IF CityKey(Head(cities)) \in seen THEN FilterUnseen(Tail(cities), seen)
    ELSE <<Head(cities)>> \o FilterUnseen(Tail(cities), seen \cup {CityKey(Head(cities))})

removeDuplicateCities(cities) == FilterUnseen(cities, {})

CompareRelevanceByNameOnly(a, b, lowerQuery) ==
    localeCompare(toLowerCase(a.name), toLowerCase(b.name))

\* the comparator of sortCitiesByRelevance
CompareRelevance(a, b, lowerQuery) ==
    LET aName == toLowerCase(a.name)
        bName == toLowerCase(b.name)
    IN  IF aName = lowerQuery /\ bName # lowerQuery THEN -1
        ELSE IF bName = lowerQuery /\ aName # lowerQuery THEN 1
        ELSE IF startsWith(aName, lowerQuery) /\ ~startsWith(bName, lowerQuery) THEN -1
        ELSE IF startsWith(bName, lowerQuery) /\ ~startsWith(aName, lowerQuery) THEN 1
        ELSE localeCompare(aName, bName)

RECURSIVE InsertCity(_, _, _)
InsertCity(sorted, city, lowerQuery) ==
    IF sorted = <<>> THEN <<city>>
    ELSE IF CompareRelevance(sorted[Len(sorted)], city, lowerQuery) <= 0 THEN Append(sorted, city)
    ELSE Append(InsertCity(SubSeq(sorted, 1, Len(sorted) - 1), city, lowerQuery),
                sorted[Len(sorted)])

RECURSIVE SortCitiesFrom(_, _, _)
SortCitiesFrom(sorted, rest, lowerQuery) ==
    IF rest = <<>> THEN sorted
    ELSE SortCitiesFrom(InsertCity(sorted, Head(rest), lowerQuery), Tail(rest), lowerQuery)

\* cities.sort(comparator), stable
sortCitiesByRelevance(cities, query) == SortCitiesFrom(<<>>, cities, toLowerCase(query))

-----------------------------------------------------------------------------
(* searchCities and searchCitiesAdvanced *)

OnShortQueryFromDemoList == Resolved(getGlobalDemoCities(""))

\* lines 14, 45: a query of fewer than 2 characters
OnShortQuery == Resolved(<<>>)

\* lines 17-19, 47-49: no valid key
OnSearchNoApiKey(query) == Resolved(getGlobalDemoCities(query))

\* lines 27-30, 57-59: a response that is not ok
OnSearchNotOk(query) == Resolved(getGlobalDemoCities(query))

OnSearchCatchRethrows(query, thrown) == Rejected(thrown)

\* lines 37-40, 63-66: the catch clause
OnSearchCatch(query, thrown) == Resolved(getGlobalDemoCities(query))

\* lines 32-36 and 61-62: the decoded body; filter is not a function of a body that is no array
OnSearchDecoded(fn, query, data) ==
    IF data.kind # "array"
    THEN OnSearchCatch(query, "TypeError: cities.filter is not a function")
    ELSE IF fn = "searchCities"
    THEN Resolved(sortCitiesByRelevance(removeDuplicateCities(data.value), query))
    ELSE Resolved(removeDuplicateCities(data.value))

\* bounded inputs of the call
Queries == {"", "p", "pa", "PAR", "lon", "gb", "new york", "an", "zz"}
Limits == {20, 25}

MkCity(name, country, state) ==
    [name |-> name, country |-> country, state |-> state, lat |-> 0, lon |-> 0]

\* bodies a success response of the geocoding endpoint can decode to: arrays of
\* locations, and an object that is no array
GeoBodies ==
    { [kind |-> "array", message |-> "", value |-> <<>>],
      [kind |-> "array", message |-> "",
       value |-> << MkCity("Parma", "IT", "Emilia-Romagna"), MkCity("Paris", "US", "Texas"),
                    MkCity("Paris", "FR", ""), MkCity("Le Paradis", "FR", ""),
                    MkCity("Paris", "US", "Texas"), MkCity("Pau", "FR", "") >>],
      [kind |-> "object", message |-> "Invalid API key", value |-> <<>>] }

\* searchCities(query) or searchCitiesAdvanced(query, limit) has been called
InitSearch ==
    /\ AggIdle
    /\ AppIdle
    /\ BoxIdle
    /\ apiKey \in ApiKeys
    /\ lat = 0
    /\ lon = 0
    /\ now = 0
    /\ fpc = "idle"
    /\ requests = 0
    /\ response = "none"
    /\ body = "none"
    /\ result = <<>>
    /\ \E fn \in {"searchCities", "searchCitiesAdvanced"}, q \in Queries, l \in Limits :
          /\ fn = "searchCities" => l = 20
          /\ searchCall = [pc |-> "called", fn |-> fn, query |-> q, limit |-> l,
                           requests |-> 0, response |-> "none", body |-> "none",
                           result |-> <<>>]
    /\ geocoded = [stage |-> "idle"]

searchFrame == <<aggVars, fetchVars, appVars, boxVars, geocoded>>

SettleSearch(settlement, resp, decoded) ==
    searchCall' = [searchCall EXCEPT !.pc = settlement.state, !.result = settlement.value,
                                     !.response = resp, !.body = decoded]

\* lines 14, 45
SearchReturnsEmpty ==
    /\ searchCall.pc = "called"
    /\ Len(searchCall.query) < 2
    /\ SettleSearch(OnShortQuery, "none", "none")
    /\ UNCHANGED searchFrame

\* lines 17-19, 47-49
SearchReturnsDemoWithoutKey ==
    /\ searchCall.pc = "called"
    /\ Len(searchCall.query) >= 2
    /\ ~hasValidApiKey(apiKey)
    /\ SettleSearch(OnSearchNoApiKey(searchCall.query), "none", "none")
    /\ UNCHANGED searchFrame

\* lines 21-25, 51-55: the request is issued and awaited
SearchIssuesRequest ==
    /\ searchCall.pc = "called"
    /\ Len(searchCall.query) >= 2
    /\ hasValidApiKey(apiKey)
    /\ searchCall' = [searchCall EXCEPT !.pc = "awaitFetch", !.requests = @ + 1]
    /\ UNCHANGED searchFrame

\* lines 27, 57 with response.ok: response.json() is awaited
SearchResponseOk ==
    /\ searchCall.pc = "awaitFetch"
    /\ searchCall' = [searchCall EXCEPT !.pc = "awaitJson", !.response = "ok"]
    /\ UNCHANGED searchFrame

\* lines 27-30, 57-59
SearchResponseNotOk ==
    /\ searchCall.pc = "awaitFetch"
    /\ SettleSearch(OnSearchNotOk(searchCall.query), "notOk", "none")
    /\ UNCHANGED searchFrame

\* the awaited fetch throws: lines 37-40, 63-66
SearchRequestThrows ==
    /\ searchCall.pc = "awaitFetch"
    /\ SettleSearch(OnSearchCatch(searchCall.query, "TypeError: Failed to fetch"), "throws", "none")
    /\ UNCHANGED searchFrame

\* lines 32-36, 61-62
SearchJsonDecoded ==
    /\ searchCall.pc = "awaitJson"
    /\ \E data \in GeoBodies :
          SettleSearch(OnSearchDecoded(searchCall.fn, searchCall.query, data), "ok", data.kind)
    /\ UNCHANGED searchFrame

\* the awaited response.json() throws: lines 37-40, 63-66
SearchJsonThrows ==
    /\ searchCall.pc = "awaitJson"
    /\ SettleSearch(OnSearchCatch(searchCall.query, "SyntaxError: Unexpected token"), "ok", "throws")
    /\ UNCHANGED searchFrame

NextSearch ==
    \/ SearchReturnsEmpty
    \/ SearchReturnsDemoWithoutKey
    \/ SearchIssuesRequest
    \/ SearchResponseOk
    \/ SearchResponseNotOk
    \/ SearchRequestThrows
    \/ SearchJsonDecoded
    \/ SearchJsonThrows

SpecSearch == InitSearch /\ [][NextSearch]_vars

-----------------------------------------------------------------------------
(* searchCitiesByCoordinates (weatherApi.ts lines 70-94); latitude and     *)
(* longitude are in 1/10000 degree                                         *)

\* lines 71-78: no valid key
OnReverseNoApiKey(la, lo) ==
    Resolved(<<[name |-> "Demo Location", country |-> "XX", state |-> "", lat |-> la, lon |-> lo]>>)

OnReverseCatchReturnsDemo(la, lo, thrown) == OnReverseNoApiKey(la, lo)

\* lines 89-92: the catch block returns an empty array
OnReverseCatch(la, lo, thrown) == Resolved(<<>>)

\* lines 84-86: a response that is not ok throws inside the try
OnReverseNotOk(la, lo) == OnReverseCatch(la, lo, "Error: Reverse geocoding failed")

\* line 88: the decoded body is returned as it is, array or not
OnReverseDecoded(data) == Resolved(IF data.kind = "array" THEN data.value ELSE data)

\* bounded inputs of the call
ReverseCoordinates ==
    {<<0, 0>>, <<488566, 23522>>, <<515074, -1278>>, <<-338688, 1512093>>,
     <<356762, 1396503>>, <<-900000, -1800000>>}

\* searchCitiesByCoordinates(lat, lon) has been called
InitReverse ==
    /\ AggIdle
    /\ AppIdle
    /\ BoxIdle
    /\ apiKey \in ApiKeys
    /\ lat = 0
    /\ lon = 0
    /\ now = 0
    /\ fpc = "idle"
    /\ requests = 0
    /\ response = "none"
    /\ body = "none"
    /\ result = <<>>
    /\ \E c \in ReverseCoordinates :
          searchCall = [pc |-> "called", fn |-> "searchCitiesByCoordinates",
                        lat |-> c[1], lon |-> c[2], requests |-> 0, response |-> "none",
                        body |-> "none", result |-> <<>>]
    /\ geocoded = [stage |-> "idle"]

\* lines 71-78
ReverseReturnsDemoWithoutKey ==
    /\ searchCall.pc = "called"
    /\ ~hasValidApiKey(apiKey)
    /\ SettleSearch(OnReverseNoApiKey(searchCall.lat, searchCall.lon), "none", "none")
    /\ UNCHANGED searchFrame

\* lines 80-82: the request is issued and awaited
ReverseIssuesRequest ==
    /\ searchCall.pc = "called"
    /\ hasValidApiKey(apiKey)
    /\ searchCall' = [searchCall EXCEPT !.pc = "awaitFetch", !.requests = @ + 1]
    /\ UNCHANGED searchFrame

\* line 84 with response.ok: response.json() is awaited (line 88)
ReverseResponseOk ==
    /\ searchCall.pc = "awaitFetch"
    /\ searchCall' = [searchCall EXCEPT !.pc = "awaitJson", !.response = "ok"]
    /\ UNCHANGED searchFrame

\* lines 84-86, 89-92
ReverseResponseNotOk ==
    /\ searchCall.pc = "awaitFetch"
    /\ SettleSearch(OnReverseNotOk(searchCall.lat, searchCall.lon), "notOk", "none")
    /\ UNCHANGED searchFrame

\* the awaited fetch throws: lines 89-92
ReverseRequestThrows ==
    /\ searchCall.pc = "awaitFetch"
    /\ SettleSearch(OnReverseCatch(searchCall.lat, searchCall.lon, "TypeError: Failed to fetch"),
                    "throws", "none")
    /\ UNCHANGED searchFrame

\* line 88
ReverseJsonDecoded ==
    /\ searchCall.pc = "awaitJson"
    /\ \E data \in GeoBodies : SettleSearch(OnReverseDecoded(data), "ok", data.kind)
    /\ UNCHANGED searchFrame

\* the awaited response.json() throws: lines 89-92
ReverseJsonThrows ==
    /\ searchCall.pc = "awaitJson"
    /\ SettleSearch(OnReverseCatch(searchCall.lat, searchCall.lon, "SyntaxError: Unexpected token"),
                    "ok", "throws")
    /\ UNCHANGED searchFrame

NextReverse ==
    \/ ReverseReturnsDemoWithoutKey
    \/ ReverseIssuesRequest
    \/ ReverseResponseOk
    \/ ReverseResponseNotOk
    \/ ReverseRequestThrows
    \/ ReverseJsonDecoded
    \/ ReverseJsonThrows

SpecReverse == InitReverse /\ [][NextReverse]_vars

-----------------------------------------------------------------------------
(* removeDuplicateCities and sortCitiesByRelevance on their own: lines     *)
(* 32-36 of searchCities applied to a decoded array of locations.          *)

\* locations in one response
MaxCities == 4

\* locations of the geocoding service: one place found twice with coordinates
\* that differ, places that share a name, names that equal, start with,
\* contain or do not contain a query
CityPool ==
    { [name |-> "Paris", country |-> "FR", state |-> "", lat |-> 488566, lon |-> 23522],
      [name |-> "Paris", country |-> "FR", state |-> "", lat |-> 488534, lon |-> 23488],
      [name |-> "Paris", country |-> "US", state |-> "Texas", lat |-> 336609, lon |-> -955555],
      [name |-> "Par", country |-> "GB", state |-> "England", lat |-> 503500, lon |-> -47000],
      [name |-> "Parma", country |-> "IT", state |-> "Emilia-Romagna", lat |-> 448013, lon |-> 103280],
      [name |-> "Le Paradis", country |-> "FR", state |-> "", lat |-> 460000, lon |-> 60000] }

CityArrays == UNION {[1..n -> CityPool] : n \in 0..MaxCities}

CityQueries == {"par", "Paris"}

InitCities ==
    /\ AggIdle
    /\ FetchIdle
    /\ AppIdle
    /\ BoxIdle
    /\ searchCall = [pc |-> "idle"]
    /\ \E data \in CityArrays, q \in CityQueries :
          geocoded = [stage |-> "decoded", data |-> data, query |-> q,
                      uniqueCities |-> <<>>, returned |-> <<>>]

citiesFrame == <<aggVars, fetchVars, searchCall, appVars, boxVars>>

\* line 35: const uniqueCities = removeDuplicateCities(data)
RemoveDuplicates ==
    /\ geocoded.stage = "decoded"
    /\ geocoded' = [geocoded EXCEPT !.stage = "unique",
                                    !.uniqueCities = removeDuplicateCities(geocoded.data)]
    /\ UNCHANGED citiesFrame

\* line 36: return sortCitiesByRelevance(uniqueCities, query); line 192 sorts
\* the array in place and returns it, so uniqueCities is the returned array
SortByRelevance ==
    /\ geocoded.stage = "unique"
    /\ \E sorted \in {sortCitiesByRelevance(geocoded.uniqueCities, geocoded.query)} :
          geocoded' = [geocoded EXCEPT !.stage = "returned",
                                       !.uniqueCities = sorted,
                                       !.returned = sorted]
    /\ UNCHANGED citiesFrame

NextCities == RemoveDuplicates \/ SortByRelevance

SpecCities == InitCities /\ [][NextCities]_vars

-----------------------------------------------------------------------------
(* App (src/src/App.tsx): the state of the component, handleCitySelect,    *)
(* handleRetry and handleRefresh, and the forecast requests in flight.     *)
(* A run of handleCitySelect is its synchronous part (the three setters    *)
(* and the call of fetchWeatherData up to its first await), the steps of   *)
(* the request, and the continuation after the await, which runs in one    *)
(* piece when the promise of fetchWeatherData settles.                     *)

\* handler invocations of one behaviour
MaxEvents == 2

\* time that passes, in milliseconds, while a request or a body is awaited
NetworkDelayMs == 1500

\* processWeatherData on a whole list: the forEach, then the sort
RECURSIVE ForEachFrom(_, _, _, _)
ForEachFrom(st, l, k, zone) ==
    IF k > Len(l)
    THEN st
    ELSE CHOOSE final \in { ForEachFrom(after, l, k + 1, zone) :
                                after \in {ForEachBody(st, l[k], zone)} } : TRUE

processWeatherData(data, zone) ==
    CHOOSE sorted \in { SortByDate(st.fs) :
                            st \in {ForEachFrom([fs |-> <<>>, dates |-> {}], data.list, 1, zone)} } : TRUE

\* App.tsx line 24 inside the try: data.list.forEach throws a TypeError when
\* the decoded body has no list
TryProcess(data, zone) ==
    IF "list" \in DOMAIN data
    THEN [threw |-> FALSE, series |-> processWeatherData(data, zone), message |-> ""]
    ELSE [threw |-> TRUE, series |-> <<>>,
          message |-> "Cannot read properties of undefined (reading 'forEach')"]

\* the five useState values as one record
AppState ==
    [selectedCity |-> selectedCity, weatherData |-> weatherData, loading |-> loading,
     error |-> error, lastUpdated |-> lastUpdated]

SetAppState(st) ==
    /\ selectedCity' = st.selectedCity
    /\ weatherData' = st.weatherData
    /\ loading' = st.loading
    /\ error' = st.error
    /\ lastUpdated' = st.lastUpdated

\* App.tsx lines 18-20
HandlerStart(st, city) ==
    [st EXCEPT !.selectedCity = <<city>>, !.loading = TRUE, !.error = <<>>]

TryBlockKeepsData(st, series, t) == [st EXCEPT !.lastUpdated = <<t>>]

\* App.tsx lines 25-26, after processWeatherData returned
TryBlock(st, series, t) == [st EXCEPT !.weatherData = series, !.lastUpdated = <<t>>]

CatchBlockKeepsData(st, message) == [st EXCEPT !.error = <<message>>]

\* App.tsx lines 27-30: err is an Error, its message is shown
CatchBlock(st, message) == [st EXCEPT !.error = <<message>>, !.weatherData = <<>>]

FinallyBlockOmitted(st) == st

\* App.tsx lines 31-33
FinallyBlock(st) == [st EXCEPT !.loading = FALSE]

\* App.tsx lines 22-33 from the settled promise on: p is what line 24 did
Continuation(st, p, t) ==
    FinallyBlock(IF p.threw THEN CatchBlock(st, p.message) ELSE TryBlock(st, p.series, t))

\* the configured key: the placeholder of the source, or a real key
AppKeys == {"demo_key", "0123456789abcdef0123456789abcdef"}

\* where and when the page is loaded: the timezone offset of the browser, the
\* clock, and the state of the generator behind Math.random
Environments ==
    { [tz |-> 0, now |-> 0, rng |-> 0],
      [tz |-> 9, now |-> 50400123, rng |-> 1] }

\* the generator after the draws of one run of getDemoWeatherData
NextRngState(state) == (state + 1) % Cardinality(Seeds)

\* the cities the user picks from the suggestions
AppCities ==
    { [name |-> "London", country |-> "GB", state |-> "England", lat |-> 515074, lon |-> -1278],
      [name |-> "Tokyo", country |-> "JP", state |-> "", lat |-> 356762, lon |-> 1396503] }

\* the forecast of the service for a city: 40 samples, 3 hours apart, from the
\* first 3-hour boundary after t; the values differ from city to city
ServiceForecast(city, t) ==
    LET first == ((t \div DemoStepMs) + 1) * DemoStepMs
        shift == IF city.name = "London" THEN 0 ELSE 3
    IN  [ cod |-> "200", message |-> 0, cnt |-> DemoSamples,
          list |-> [k \in 1..DemoSamples |->
                       MkForecast((first + (k - 1) * DemoStepMs) \div MsPerSecond,
                                  ((k + shift) % 7) + 1)],
          city |-> [id |-> 1, name |-> city.name, coord |-> [lat |-> city.lat, lon |-> city.lon],
                    country |-> city.country, population |-> 1000000, timezone |-> 0,
                    sunrise |-> 21600, sunset |-> 64800] ]

\* bodies a success response can decode to: the forecast, and a body without a list
ServiceBodies(city, t) == {ServiceForecast(city, t), [cod |-> "200", message |-> 0]}

\* fetchWeatherData(city.lat, city.lon) up to its first await (weatherApi.ts 97-107)
StartedCall(city, key) ==
    [ city     |-> city, lat |-> city.lat, lon |-> city.lon,
      stage    |-> IF hasValidApiKey(key) THEN "awaitFetch" ELSE "settled",
      requests |-> IF hasValidApiKey(key) THEN 1 ELSE 0,
      response |-> "none", body |-> "none",
      outcome  |-> "none", series |-> <<>>, message |-> "", demo |-> FALSE, finished |-> 0 ]

Finished == {i \in DOMAIN calls : calls[i].stage = "done"}
InFlight == {i \in DOMAIN calls : calls[i].stage # "done"}

\* a promise has settled and its continuation has not run yet: it runs
\* before any other event is handled
ContinuationPending == \E i \in DOMAIN calls : calls[i].stage = "settled"

appFrame ==
    <<tz, list, idx, dailyForecasts, processedDates, pc,
      apiKey, lat, lon, fpc, requests, response, body, result, searchVars, boxVars>>

\* App mounted in a browser at some timezone offset, at some time, with some key
InitApp ==
    /\ \E env \in Environments : tz = env.tz /\ now = env.now /\ rngState = env.rng
    /\ list = <<>>
    /\ idx = 1
    /\ dailyForecasts = <<>>
    /\ processedDates = {}
    /\ pc = "idle"
    /\ apiKey \in AppKeys
    /\ lat = 0
    /\ lon = 0
    /\ fpc = "idle"
    /\ requests = 0
    /\ response = "none"
    /\ body = "none"
    /\ result = <<>>
    /\ SearchIdle
    /\ BoxIdle
    /\ selectedCity = <<>>
    /\ weatherData = <<>>
    /\ loading = FALSE
    /\ error = <<>>
    /\ lastUpdated = <<>>
    /\ calls = <<>>
    /\ lastEvent = [kind |-> "none", city |-> <<>>, n |-> 0]

UserCanAct == ~ContinuationPending /\ lastEvent.n < MaxEvents

\* handleCitySelect(city), lines 17-21, invoked by the handler named kind
InvokeHandleCitySelect(kind, city) ==
    /\ SetAppState(HandlerStart(AppState, city))
    /\ calls' = Append(calls, StartedCall(city, apiKey))
    /\ lastEvent' = [kind |-> kind, city |-> <<city>>, n |-> lastEvent.n + 1]
    /\ UNCHANGED <<now, rngState>>
    /\ UNCHANGED appFrame

InvokeNothingSetsLoading(kind) ==
    /\ lastEvent' = [kind |-> kind, city |-> <<>>, n |-> lastEvent.n + 1]
    /\ loading' = TRUE
    /\ UNCHANGED <<selectedCity, weatherData, error, lastUpdated, calls>>
    /\ UNCHANGED <<now, rngState>>
    /\ UNCHANGED appFrame

\* a handler whose guard if (selectedCity) is false: nothing is done
InvokeNothing(kind) ==
    /\ lastEvent' = [kind |-> kind, city |-> <<>>, n |-> lastEvent.n + 1]
    /\ UNCHANGED <<selectedCity, weatherData, loading, error, lastUpdated, calls>>
    /\ UNCHANGED <<now, rngState>>
    /\ UNCHANGED appFrame

\* the user picks a city in CitySearch: onCitySelect = handleCitySelect
SelectCity ==
    /\ UserCanAct
    /\ \E city \in AppCities : InvokeHandleCitySelect("select", city)

\* ErrorMessage is rendered when error is set (line 123), the Try Again
\* button when nothing is loading, failed or shown for a selected city (148)
RetryRendered ==
    \/ error # <<>>
    \/ ~loading /\ weatherData = <<>> /\ selectedCity # <<>>

\* handleRetry, lines 36-40
Retry ==
    /\ UserCanAct
    /\ IF selectedCity # <<>>
       THEN RetryRendered /\ InvokeHandleCitySelect("retry", selectedCity[1])
       ELSE InvokeNothing("retry")

\* the Refresh button is rendered for a selected city, disabled while loading (110-117)
RefreshEnabled == selectedCity # <<>> /\ ~loading

\* handleRefresh, lines 42-46
Refresh ==
    /\ UserCanAct
    /\ IF selectedCity # <<>>
       THEN RefreshEnabled /\ InvokeHandleCitySelect("refresh", selectedCity[1])
       ELSE InvokeNothing("refresh")

\* the continuation of handleCitySelect for call i runs at instant t: p is
\* what processWeatherData did with the value the promise settled with
ContinueWith(i, resp, decoded, p, demo, t) ==
    /\ rngState' = IF demo THEN NextRngState(rngState) ELSE rngState
    /\ UNCHANGED lastEvent
    /\ UNCHANGED appFrame
    /\ SetAppState(Continuation(AppState, p, t))
    /\ calls' = [calls EXCEPT ![i] =
                    [@ EXCEPT !.stage = "done", !.response = resp, !.body = decoded,
                              !.outcome = IF p.threw THEN "failure" ELSE "success",
                              !.series = p.series, !.message = p.message,
                              !.demo = demo, !.finished = Cardinality(Finished) + 1]]

\* the promise of call i settles with settlement and the continuation of
\* handleCitySelect runs at instant t
Complete(i, resp, decoded, settlement, demo, t) ==
    /\ now' = t
    /\ \E data \in {settlement.value} :
          \E p \in {TryProcess(data, tz)} : ContinueWith(i, resp, decoded, p, demo, t)

\* weatherApi.ts 99-102, then the continuation: no request was made
AppReturnDemoWithoutKey ==
    \E i \in DOMAIN calls :
        /\ calls[i].stage = "settled"
        /\ Complete(i, "none", "none", OnNoApiKey(calls[i].lat, calls[i].lon, now, rngState), TRUE, now)

\* weatherApi.ts 109 with response.ok: response.json() is awaited
AppResponseOk ==
    \E i \in DOMAIN calls :
        /\ calls[i].stage = "awaitFetch"
        /\ calls' = [calls EXCEPT ![i] = [@ EXCEPT !.stage = "awaitJson", !.response = "ok"]]
        /\ now' = now + NetworkDelayMs
        /\ UNCHANGED <<selectedCity, weatherData, loading, error, lastUpdated, lastEvent, rngState>>
        /\ UNCHANGED appFrame

\* weatherApi.ts 109-112, then the continuation
AppResponseNotOk ==
    \E i \in DOMAIN calls :
        /\ calls[i].stage = "awaitFetch"
        /\ LET t == now + NetworkDelayMs
           IN  Complete(i, "notOk", "none",
                        OnResponseNotOk(calls[i].lat, calls[i].lon, t, rngState), TRUE, t)

\* the awaited fetch throws: weatherApi.ts 116-119, then the continuation
AppRequestThrows ==
    \E i \in DOMAIN calls :
        /\ calls[i].stage = "awaitFetch"
        /\ LET t == now + NetworkDelayMs
           IN  Complete(i, "throws", "none",
                        OnCatch(calls[i].lat, calls[i].lon, t, rngState, "TypeError: Failed to fetch"),
                        TRUE, t)

\* weatherApi.ts 114-115, then the continuation
AppJsonDecoded ==
    \E i \in DOMAIN calls :
        /\ calls[i].stage = "awaitJson"
        /\ LET t == now + NetworkDelayMs
           IN  \E data \in ServiceBodies(calls[i].city, t) :
                   Complete(i, "ok", "ok", OnDecoded(data), FALSE, t)

\* the awaited response.json() throws: weatherApi.ts 116-119, then the continuation
AppJsonThrows ==
    \E i \in DOMAIN calls :
        /\ calls[i].stage = "awaitJson"
        /\ LET t == now + NetworkDelayMs
           IN  Complete(i, "ok", "throws",
                        OnCatch(calls[i].lat, calls[i].lon, t, rngState, "SyntaxError: Unexpected token"),
                        TRUE, t)

\* a request, or the continuation of a settled promise, moves on
RequestStep ==
    \/ AppReturnDemoWithoutKey
    \/ AppResponseOk
    \/ AppResponseNotOk
    \/ AppRequestThrows
    \/ AppJsonDecoded
    \/ AppJsonThrows

NextApp ==
    \/ SelectCity
    \/ Retry
    \/ Refresh
    \/ AppReturnDemoWithoutKey
    \/ AppResponseOk
    \/ AppResponseNotOk
    \/ AppRequestThrows
    \/ AppJsonDecoded
    \/ AppJsonThrows

SpecApp == InitApp /\ [][NextApp]_vars

\* every request that was started is eventually answered, and every settled
\* promise has its continuation run
SpecAppFair == SpecApp /\ WF_vars(RequestStep)

-----------------------------------------------------------------------------
(* CitySearch (src/src/components/CitySearch.tsx): the state of the        *)
(* component, the debounce effect on [query, searchMode] with its timer,   *)
(* the searches the timer starts, and the handlers that change the query.  *)
(* The clock is `now`, in milliseconds since the component was mounted.    *)
(* A setter of useState does not change the value a handler reads: it      *)
(* queues an update, and a render applies queued updates in the order of   *)
(* the calls and gives the handlers their new values. The setter calls of  *)
(* an event handler are rendered when the handler ends. The setter calls   *)
(* of the timer callback and of the continuation of a search are made      *)
(* outside an event handler: their render is a step of its own, which      *)
(* comes at once or after later events (the renderer is not part of src/;  *)
(* both orders are behaviours of the model). A handler that runs before    *)
(* that render reads the values of the last render, and the render that    *)
(* ends it applies its own setter calls to those values and leaves the     *)
(* earlier calls queued; the render of the earlier calls then starts again *)
(* from the values before them and applies every call since, the           *)
(* handler's too, in the order they were made.                             *)

\* ticks of the clock in one behaviour
MaxTicks == 6

\* calls of onCitySelect in one behaviour
MaxSelections == 1

\* event handlers that run while a render of queued setter calls is awaited
MaxHeldEvents == 2

\* the clock advances in steps of this many milliseconds
TickMs == 100

\* CitySearch.tsx:58  setTimeout(searchForCities, 300)
DebounceMs == 300

\* CitySearch.tsx:44  searchCitiesAdvanced(query, 25)
AdvancedLimit == 25

\* CitySearch.tsx:65  e.target.value.length > 4
AdvancedLength == 4

\* values of the input field
BoxQueries == {"", "t", "toky", "tokyo"}

\* CitySearch.tsx lines 12-17
InitialCitySearch ==
    [query |-> "", suggestions |-> <<>>, isLoading |-> FALSE, showSuggestions |-> FALSE,
     highlightedIndex |-> -1, searchMode |-> "basic"]

\* A call setX(v) of a setter of useState is the record [x |-> v].

\* lines 85-87: setHighlightedIndex(prev => prev < suggestions.length - 1 ? prev + 1 : 0),
\* the updater holds suggestions.length of the render the handler belongs to
NextIndex(length) == [nextIndexOf |-> length]

\* lines 91-93: setHighlightedIndex(prev => prev > 0 ? prev - 1 : suggestions.length - 1)
PreviousIndex(length) == [previousIndexOf |-> length]

\* the state after one queued update: a value replaces the state, an
\* updater is called with the state the updates before it gave
ApplyUpdate(st, u) ==
    IF "nextIndexOf" \in DOMAIN u
    THEN [st EXCEPT !.highlightedIndex = IF @ < u.nextIndexOf - 1 THEN @ + 1 ELSE 0]
    ELSE IF "previousIndexOf" \in DOMAIN u
    THEN [st EXCEPT !.highlightedIndex = IF @ > 0 THEN @ - 1 ELSE u.previousIndexOf - 1]
    ELSE LET x == CHOOSE f \in DOMAIN u : TRUE IN [st EXCEPT ![x] = u[x]]

\* the state a render gives: the updates applied in order
RECURSIVE ApplyUpdates(_, _)
ApplyUpdates(st, us) ==
    IF Len(us) = 0 THEN st ELSE ApplyUpdates(ApplyUpdate(st, Head(us)), Tail(us))

\* setter calls as they are queued: event is 0 for calls made outside an
\* event handler, else the number of the handler among those that ran
\* since the oldest queued call
Queue(setterCalls, event) ==
    [i \in 1..Len(setterCalls) |-> [call |-> setterCalls[i], event |-> event]]

\* the setter calls of a queue
CallsOf(queue) == [i \in 1..Len(queue) |-> queue[i].call]

\* the event handlers that ran since the oldest queued call
HeldEvents == Cardinality({updates[i].event : i \in 1..Len(updates)} \ {0})

handleInputChangeFromFour(value) ==
    << [query |-> value],
       [searchMode |-> IF Len(value) >= AdvancedLength THEN "advanced" ELSE "basic"] >>

\* lines 62-70
handleInputChange(value) ==
    << [query |-> value],
       [searchMode |-> IF Len(value) > AdvancedLength THEN "advanced" ELSE "basic"] >>

\* lines 72-77, the setters after onCitySelect(city)
handleCitySelect ==
    << [query |-> ""], [showSuggestions |-> FALSE], [highlightedIndex |-> -1] >>

\* lines 108-112
clearSelection ==
    << [query |-> ""], [showSuggestions |-> FALSE], [searchMode |-> "basic"] >>

\* lines 80 and 82-104: handleKeyDown, the setter calls of the key, made with
\* the values st of the render the handler belongs to; Enter with an index
\* of 0 or more runs handleCitySelect (lines 97-99)
handleKeyDown(st, key) ==
    IF ~st.showSuggestions \/ Len(st.suggestions) = 0 THEN <<>>
    ELSE CASE key = "ArrowDown" -> << NextIndex(Len(st.suggestions)) >>
           [] key = "ArrowUp" -> << PreviousIndex(Len(st.suggestions)) >>
           [] key = "Enter" -> IF st.highlightedIndex >= 0 THEN handleCitySelect ELSE <<>>
           [] key = "Escape" ->
                << [showSuggestions |-> FALSE], [highlightedIndex |-> -1] >>
           [] OTHER -> <<>>

\* suggestions[i] with i out of range is undefined
Undefined == [undefined |-> TRUE]

\* lines 80 and 97-99: the arguments Enter passes to onCitySelect, none or one
EnterSelects(st) ==
    IF ~st.showSuggestions \/ Len(st.suggestions) = 0 \/ st.highlightedIndex < 0 THEN <<>>
    ELSE IF st.highlightedIndex < Len(st.suggestions)
         THEN <<st.suggestions[st.highlightedIndex + 1]>>
         ELSE <<Undefined>>

\* line 217: onFocus
handleFocus(st) == IF Len(st.query) >= 2 THEN << [showSuggestions |-> TRUE] >> ELSE <<>>

\* lines 22-26: a mousedown outside the component
handleClickOutside == << [showSuggestions |-> FALSE] >>

\* the keys handleKeyDown has a case for, and one it has none for
Keys == {"ArrowDown", "ArrowUp", "Enter", "Escape", "Tab"}

\* lines 34-38: searchForCities with a query of fewer than 2 characters
ShortQueryBranch == << [suggestions |-> <<>>], [showSuggestions |-> FALSE] >>

\* line 40
SearchStarted == << [isLoading |-> TRUE] >>

\* lines 47-49 and 54: the awaited search resolved with results
SearchResolved(results) ==
    << [suggestions |-> results], [showSuggestions |-> TRUE],
       [highlightedIndex |-> -1], [isLoading |-> FALSE] >>

\* lines 50-54: the awaited search rejected
SearchRejected == << [suggestions |-> <<>>], [isLoading |-> FALSE] >>

CleanupOmitted(ts) == {[t EXCEPT !.current = FALSE] : t \in ts}

\* line 59: the cleanup of the effect clears the timer that effect set
Cleanup(ts) == {t \in ts : ~t.current}

\* line 58: the effect sets a timer that holds the query and mode of its render
SetTimer(ts, st, t) ==
    ts \cup {[query |-> st.query, searchMode |-> st.searchMode, due |-> t + DebounceMs,
              current |-> TRUE]}

\* the effect depends on [query, searchMode]: it runs again, after the
\* cleanup of its last run, when one of them changed in the render
DepsChanged(old, new) == old.query # new.query \/ old.searchMode # new.searchMode

\* lines 42-45: the function the search calls, and its arguments
SearchFunction(mode) == IF mode = "advanced" THEN "searchCitiesAdvanced" ELSE "searchCities"

\* the values the promise of a search can settle with (weatherApi.ts 13-67)
SearchSettlements(fn, q, key) ==
    IF ~hasValidApiKey(key)
    THEN {OnSearchNoApiKey(q)}
    ELSE {OnSearchNotOk(q), OnSearchCatch(q, "TypeError: Failed to fetch")}
         \cup {OnSearchDecoded(fn, q, data) : data \in GeoBodies}

\* the same, computed once for the queries of the input field
SettlementTable ==
    [fn \in {"searchCities", "searchCitiesAdvanced"}, q \in {v \in BoxQueries : Len(v) >= 2},
     key \in AppKeys |-> SearchSettlements(fn, q, key)]

boxFrame == <<aggVars, apiKey, lat, lon, fpc, requests, response, body, result, searchVars, appVars>>

\* no search has settled without its continuation having run
BoxCanAct == \A i \in DOMAIN searches : searches[i].stage # "settled"

\* CitySearch is mounted: the effect runs for the first time
InitBox ==
    /\ AggIdle
    /\ apiKey \in AppKeys
    /\ lat = 0
    /\ lon = 0
    /\ now = 0
    /\ fpc = "idle"
    /\ requests = 0
    /\ response = "none"
    /\ body = "none"
    /\ result = <<>>
    /\ SearchIdle
    /\ AppIdle
    /\ citySearch = InitialCitySearch
    /\ baseState = InitialCitySearch
    /\ updates = <<>>
    /\ timers = SetTimer({}, InitialCitySearch, 0)
    /\ searches = <<>>
    /\ lastChange = 0
    /\ selections = <<>>

\* the component renders with state st: the effect runs again when its
\* dependencies changed
Render(st) ==
    /\ citySearch' = st
    /\ IF DepsChanged(citySearch, st)
       THEN /\ timers' = SetTimer(Cleanup(timers), st, now)
            /\ lastChange' = now
       ELSE UNCHANGED <<timers, lastChange>>

\* the render that ends an event handler: the setter calls of the handler
\* are applied to the values on screen; when earlier calls await their
\* render, they stay queued and the handler's calls are queued after them
RenderEvent(setterCalls) ==
    /\ HeldEvents < MaxHeldEvents
    /\ \E st \in {ApplyUpdates(citySearch, setterCalls)} :
          /\ Render(st)
          /\ IF updates = <<>>
             THEN /\ baseState' = st
                  /\ updates' = <<>>
             ELSE /\ baseState' = baseState
                  /\ updates' = updates \o Queue(setterCalls, HeldEvents + 1)

\* the user edits the input field
BoxType ==
    /\ BoxCanAct
    /\ \E value \in BoxQueries \ {citySearch.query} : RenderEvent(handleInputChange(value))
    /\ UNCHANGED <<now, searches, selections>>
    /\ UNCHANGED boxFrame

\* the user clicks the first or the last of the suggestions on screen (lines 248-255)
BoxSelect ==
    /\ BoxCanAct
    /\ citySearch.showSuggestions
    /\ citySearch.suggestions # <<>>
    /\ Len(selections) < MaxSelections
    /\ \E k \in {1, Len(citySearch.suggestions)} :
          selections' = Append(selections, citySearch.suggestions[k])
    /\ RenderEvent(handleCitySelect)
    /\ UNCHANGED <<now, searches>>
    /\ UNCHANGED boxFrame

\* the user clicks the clear button, rendered when the query is not empty (221-228)
BoxClear ==
    /\ BoxCanAct
    /\ citySearch.query # ""
    /\ RenderEvent(clearSelection)
    /\ UNCHANGED <<now, searches, selections>>
    /\ UNCHANGED boxFrame

\* the user presses a key in the input field (line 216)
KeyDown(key) ==
    /\ BoxCanAct
    /\ key = "Enter" /\ EnterSelects(citySearch) # <<>> => Len(selections) < MaxSelections
    /\ selections' = IF key = "Enter" THEN selections \o EnterSelects(citySearch)
                                       ELSE selections
    /\ RenderEvent(handleKeyDown(citySearch, key))
    /\ UNCHANGED <<now, searches>>
    /\ UNCHANGED boxFrame

BoxKeyDown == \E key \in Keys : KeyDown(key)

\* the input field receives the focus (line 217)
BoxFocus ==
    /\ BoxCanAct
    /\ RenderEvent(handleFocus(citySearch))
    /\ UNCHANGED <<now, searches, selections>>
    /\ UNCHANGED boxFrame

\* the user presses the mouse button outside the component (lines 21-30)
BoxClickOutside ==
    /\ BoxCanAct
    /\ RenderEvent(handleClickOutside)
    /\ UNCHANGED <<now, searches, selections>>
    /\ UNCHANGED boxFrame

\* time passes
BoxTick ==
    /\ BoxCanAct
    /\ now < MaxTicks * TickMs
    /\ now' = now + TickMs
    /\ UNCHANGED <<citySearch, baseState, updates, timers, searches, lastChange, selections>>
    /\ UNCHANGED boxFrame

\* a timer that is due fires: searchForCities runs up to its first await
\* (33-45); its setter calls are queued
BoxTimerFires ==
    /\ BoxCanAct
    /\ \E t \in timers :
          /\ t.due <= now
          /\ timers' = timers \ {t}
          /\ IF Len(t.query) < 2
             THEN /\ updates' = updates \o Queue(ShortQueryBranch, 0)
                  /\ UNCHANGED searches
             ELSE /\ updates' = updates \o Queue(SearchStarted, 0)
                  /\ searches' = Append(searches,
                        [fn |-> SearchFunction(t.searchMode), query |-> t.query,
                         limit |-> IF t.searchMode = "advanced" THEN <<AdvancedLimit>> ELSE <<>>,
                         startedAt |-> now,
                         stage |-> IF hasValidApiKey(apiKey) THEN "pending" ELSE "settled",
                         result |-> <<>>])
    /\ UNCHANGED <<citySearch, baseState, now, lastChange, selections>>
    /\ UNCHANGED boxFrame

\* the promise of a search settles and searchForCities runs on (46-55); its
\* setter calls are queued
BoxSearchSettles ==
    /\ \E i \in DOMAIN searches :
          /\ searches[i].stage # "done"
          /\ \E settlement \in SettlementTable[searches[i].fn, searches[i].query, apiKey] :
                /\ updates' = updates \o Queue(IF settlement.state = "resolved"
                                                THEN SearchResolved(settlement.value)
                                                ELSE SearchRejected, 0)
                /\ searches' = [searches EXCEPT ![i] =
                                   [@ EXCEPT !.stage = "done", !.result = settlement.value]]
    /\ UNCHANGED <<citySearch, baseState, now, timers, lastChange, selections>>
    /\ UNCHANGED boxFrame

\* the render of the setter calls made outside an event handler: every
\* queued call is applied, in order, to the values before the oldest
BoxRender ==
    /\ updates # <<>>
    /\ \E st \in {ApplyUpdates(baseState, CallsOf(updates))} :
          /\ Render(st)
          /\ baseState' = st
    /\ updates' = <<>>
    /\ UNCHANGED <<now, searches, selections>>
    /\ UNCHANGED boxFrame

NextBox ==
    \/ BoxType
    \/ BoxSelect
    \/ BoxClear
    \/ BoxKeyDown
    \/ BoxFocus
    \/ BoxClickOutside
    \/ BoxTick
    \/ BoxTimerFires
    \/ BoxSearchSettles
    \/ BoxRender

SpecBox == InitBox /\ [][NextBox]_vars

\* The two ways a search is reached: a search function is called directly
\* (weatherApi.ts 13-67), or CitySearch is mounted and calls it from its
\* debounce timer. A behaviour is one or the other.
InitSearchOrBox == InitSearch \/ InitBox

NextSearchOrBox ==
    \/ searchCall.pc # "idle" /\ NextSearch
    \/ searchCall.pc = "idle" /\ NextBox

SpecSearchOrBox == InitSearchOrBox /\ [][NextSearchOrBox]_vars

-----------------------------------------------------------------------------
(* Vocabulary of the properties of processWeatherData *)

\* the date strings of an array of daily forecasts
DatesOf(fs) == {fs[i].date : i \in 1..Len(fs)}

\* date string and browser hour of the i-th input sample
SampleDate(i) == ToISODateString(list[i].dt * MsPerSecond)
SampleHour(i) == GetHours(list[i].dt * MsPerSecond, tz)
MiddayDistance(i) == Abs(SampleHour(i) - Midday)

\* the input samples already visited by forEach
Visited == 1..(idx - 1)

InputDates == {SampleDate(i) : i \in 1..Len(list)}

\* number of distinct dates seen strictly before position i
DatesBefore(i) == Cardinality({SampleDate(j) : j \in 1..(i - 1)})

\* the first n distinct dates among the visited samples, in input order
FirstDates(n) == {SampleDate(i) : i \in {k \in Visited : DatesBefore(k) < n}}

\* the daily forecast held for a date
EntryOf(dateStr) == dailyForecasts[FindIndex(dailyForecasts, dateStr)]

\* two input samples of one date at the same distance from midday
Tied(i, j) ==
    /\ i < j
    /\ SampleDate(i) = SampleDate(j)
    /\ MiddayDistance(i) = MiddayDistance(j)

-----------------------------------------------------------------------------
(* C1: the array of daily forecasts never holds two entries with the same  *)
(* date string, during the pass and in the returned array.                 *)
C1_OneEntryPerDate ==
    \A i, j \in 1..Len(dailyForecasts) :
        i # j => dailyForecasts[i].date # dailyForecasts[j].date

\* returned array of an input in which some date occurs more than once
C1_Witness ==
    /\ pc = "done"
    /\ Len(dailyForecasts) >= 2
    /\ \E i, j \in 1..Len(list) : i < j /\ SampleDate(i) = SampleDate(j)

(* C2: the array of daily forecasts has at most 7 entries after every step *)
(* of the pass and when returned, whatever the number of dates in the      *)
(* input.                                                                  *)
C2_AtMostSeven == Len(dailyForecasts) <= 7

\* returned array of an input with more than seven distinct dates
C2_Witness ==
    /\ pc = "done"
    /\ Cardinality(InputDates) > 7
    /\ Len(dailyForecasts) = 7

(* C3: the returned array is ordered by strictly ascending date, also when *)
(* the input samples are not in chronological order.                       *)
C3_AscendingDates ==
    pc = "done" =>
        \A i \in 1..(Len(dailyForecasts) - 1) :
            dailyForecasts[i].date < dailyForecasts[i + 1].date

\* returned array of an input whose retained dates arrive in descending order
C3_Witness ==
    /\ pc = "done"
    /\ Len(dailyForecasts) >= 2
    /\ \E i, j \in 1..Len(list) :
          /\ i < j
          /\ SampleDate(i) > SampleDate(j)
          /\ {SampleDate(i), SampleDate(j)} \subseteq DatesOf(dailyForecasts)

(* C4: every returned entry comes from a sample of its date whose hour of  *)
(* day is at minimum distance from 12 among the input samples of that      *)
(* date.                                                                   *)
C4_ClosestToMiddayRetained ==
    pc = "done" =>
        \A e \in 1..Len(dailyForecasts) :
            \E i \in 1..Len(list) :
                /\ SampleDate(i) = dailyForecasts[e].date
                /\ dailyForecasts[e] = ToDailyForecast(list[i], tz)
                /\ \A j \in 1..Len(list) :
                      SampleDate(j) = SampleDate(i) => MiddayDistance(i) <= MiddayDistance(j)

(* C5: of two samples of one date that are equally distant from 12:00, the *)
(* later one in the input is never the retained one; when they are the     *)
(* only samples of a retained date, the retained entry is the earlier one. *)
C5_TieKeepsFirstSeen ==
    pc = "done" =>
        \A i, j \in 1..Len(list) :
            (Tied(i, j) /\ SampleDate(i) \in DatesOf(dailyForecasts)) =>
                /\ EntryOf(SampleDate(i)) # ToDailyForecast(list[j], tz)
                /\ (\A k \in 1..Len(list) : SampleDate(k) = SampleDate(i) => k \in {i, j})
                      => EntryOf(SampleDate(i)) = ToDailyForecast(list[i], tz)

\* returned array of an input with a sample at 15:00 followed by one at 09:00 of the same date
C5_Witness ==
    /\ pc = "done"
    /\ \E i, j \in 1..Len(list) :
          /\ Tied(i, j)
          /\ SampleHour(i) = 15
          /\ SampleHour(j) = 9
          /\ SampleDate(i) \in DatesOf(dailyForecasts)
          /\ EntryOf(SampleDate(i)) = ToDailyForecast(list[i], tz)

(* C6: after every step the dates retained are exactly the first           *)
(* min(7, n) distinct dates of the samples visited so far, n being the     *)
(* number of distinct dates visited: a further date is dropped once seven  *)
(* are retained, and a retained date is never lost.                        *)
C6_FirstSevenDates == DatesOf(dailyForecasts) = FirstDates(7)

\* seven dates retained, an eighth date dropped, and then a sample of a
\* retained date that is closer to midday than the first sample of that date
C6_Witness ==
    /\ pc = "done"
    /\ Cardinality(InputDates) > 7
    /\ Len(dailyForecasts) = 7
    /\ \E i, j \in 1..Len(list) :
          /\ i < j
          /\ DatesBefore(j) > 7
          /\ SampleDate(i) = SampleDate(j)
          /\ MiddayDistance(j) < MiddayDistance(i)
          /\ SampleDate(j) \in DatesOf(dailyForecasts)

-----------------------------------------------------------------------------
(* Vocabulary of the properties of the unit conversions: the sample of a   *)
(* one-sample list and the entry retained for it                           *)

TheSample == list[1]
TheEntry == dailyForecasts[1]
OneRetained == Len(list) = 1 /\ Len(dailyForecasts) = 1

\* the amount of an optional sub-field, a missing one counting as zero
AmountOf(opt) == IF opt = <<>> THEN 0 ELSE opt[1]

(* C7: for the retained sample, precipitationType is "snow" when the snow  *)
(* amount is non-zero, otherwise "rain" when the rain amount is non-zero,  *)
(* otherwise "none"; precipitation is rain plus snow; and the type is      *)
(* "none" exactly when precipitation is 0.                                 *)
C7_PrecipitationTypeAndAmount ==
    OneRetained =>
        LET rain == AmountOf(TheSample.rain)
            snow == AmountOf(TheSample.snow)
        IN  /\ snow # 0 => TheEntry.precipitationType = "snow"
            /\ (snow = 0 /\ rain # 0) => TheEntry.precipitationType = "rain"
            /\ (snow = 0 /\ rain = 0) => TheEntry.precipitationType = "none"
            /\ TheEntry.precipitation = rain + snow
            /\ TheEntry.precipitationType = "none" <=> TheEntry.precipitation = 0

\* a returned entry for a sample with both rain and snow, labelled snow
C7_Witness ==
    /\ pc = "done"
    /\ OneRetained
    /\ TheSample.rain = <<2>>
    /\ TheSample.snow = <<1>>
    /\ TheEntry.precipitationType = "snow"
    /\ TheEntry.precipitation = 3

(* C8: for the retained sample, windSpeed is the integer nearest to 3.6    *)
(* times the integer wind speed (10 gives 36) and visibility is an integer *)
(* nearest to the metre value divided by 1000.                             *)
C8_WindAndVisibilityRounded ==
    OneRetained =>
        /\ 2 * Abs(10 * TheEntry.windSpeed - 36 * TheSample.wind.speed) <= 10
        /\ TheSample.wind.speed = 10 => TheEntry.windSpeed = 36
        /\ 2 * Abs(1000 * TheEntry.visibility - TheSample.visibility) <= 1000

\* a returned entry for wind speed 10 and visibility 1499 m
C8_Witness ==
    /\ pc = "done"
    /\ OneRetained
    /\ TheSample.wind.speed = 10
    /\ TheEntry.windSpeed = 36
    /\ TheSample.visibility = 1499
    /\ TheEntry.visibility = 1

(* C9: for a cloud percentage p in 0..100, cloudCover is p/10 rounded half *)
(* up, an integer in 0..10; 55 gives 6, 54 gives 5 and 100 gives 10.       *)
C9_CloudCoverHalfUp ==
    (OneRetained /\ TheSample.clouds.all \in 0..100) =>
        LET p == TheSample.clouds.all
            c == TheEntry.cloudCover
        IN  /\ c \in 0..10
            /\ 10 * c - 5 <= p
            /\ p < 10 * c + 5
            /\ p = 55 => c = 6
            /\ p = 54 => c = 5
            /\ p = 100 => c = 10

\* a returned entry for 55 percent, rounded up to 6
C9_Witness ==
    /\ pc = "done"
    /\ OneRetained
    /\ TheSample.clouds.all = 55
    /\ TheEntry.cloudCover = 6

-----------------------------------------------------------------------------
(* Vocabulary of the properties of fetchWeatherData *)

\* the value is the synthetic forecast generated for the coordinates
IsDemoFor(value, la, lo) ==
    /\ value.city.name = "Demo City"
    /\ value.city.coord = [lat |-> la, lon |-> lo]
    /\ value.cnt = 40
    /\ Len(value.list) = 40

\* the call took one of the fallback paths
FellBack ==
    \/ requests = 0
    \/ response \in {"notOk", "throws"}
    \/ body = "throws"

(* C10: the promise returned by fetchWeatherData is never rejected; when   *)
(* no valid key is configured no request is made, otherwise at most one;   *)
(* and when there is no valid key, the response is not a success, or the   *)
(* request or the JSON decoding throws, the promise resolves with the demo *)
(* forecast for the requested coordinates.                                 *)
C10_FetchNeverRejects ==
    /\ fpc # "rejected"
    /\ requests <= 1
    /\ ~hasValidApiKey(apiKey) => requests = 0
    /\ (fpc = "resolved" /\ FellBack) => IsDemoFor(result, lat, lon)

\* a call whose request succeeded and whose JSON decoding threw, resolved with demo data
C10_Witness ==
    /\ fpc = "resolved"
    /\ requests = 1
    /\ response = "ok"
    /\ body = "throws"
    /\ IsDemoFor(result, lat, lon)

-----------------------------------------------------------------------------
(* Vocabulary of the properties of searchCities and searchCitiesAdvanced *)

\* the configured key is the placeholder or has 10 or fewer characters
NoValidKey == apiKey = "demo_key" \/ Len(apiKey) <= 10

\* every city of the array is an entry of the bundled list that contains the
\* query, case-insensitively, in its name, country code or state
FromBundledList(cities, query) ==
    \A i \in 1..Len(cities) :
        /\ \E j \in 1..Len(globalCities) : globalCities[j] = cities[i]
        /\ \/ includes(toLowerCase(cities[i].name), toLowerCase(query))
           \/ includes(toLowerCase(cities[i].country), toLowerCase(query))
           \/ includes(toLowerCase(cities[i].state), toLowerCase(query))

(* C11 as stated, for every query: the promise returned by searchCities or *)
(* searchCitiesAdvanced is never rejected; without a valid key no request  *)
(* is made; and when there is no valid key, the response is not a success  *)
(* or the request throws, it resolves with the bundled city list filtered  *)
(* by the query.                                                           *)
C11_FallsBackForEveryQuery ==
    /\ searchCall.pc # "rejected"
    /\ NoValidKey => searchCall.requests = 0
    /\ ( /\ searchCall.pc = "resolved"
         /\ (NoValidKey \/ searchCall.response \in {"notOk", "throws"}) )
       => /\ searchCall.result = getGlobalDemoCities(searchCall.query)
          /\ FromBundledList(searchCall.result, searchCall.query)

(* C11, for the queries lines 14 and 45 let through: the promise returned  *)
(* by searchCities or searchCitiesAdvanced is never rejected; without a    *)
(* valid key no request is made; for a query of 2 or more characters, when *)
(* there is no valid key, the response is not a success or the request     *)
(* throws, it resolves with the bundled city list filtered by the query;   *)
(* for a query of fewer than 2 characters it resolves with the empty list  *)
(* and no request is made.                                                 *)
C11_SearchFallsBackToBundledList ==
    /\ searchCall.pc # "rejected"
    /\ NoValidKey => searchCall.requests = 0
    /\ ( /\ searchCall.pc = "resolved"
         /\ Len(searchCall.query) >= 2
         /\ (NoValidKey \/ searchCall.response \in {"notOk", "throws"}) )
       => /\ searchCall.result = getGlobalDemoCities(searchCall.query)
          /\ FromBundledList(searchCall.result, searchCall.query)
    /\ ( /\ searchCall.pc = "resolved"
         /\ Len(searchCall.query) < 2 )
       => /\ searchCall.result = <<>>
          /\ searchCall.requests = 0

\* an advanced search whose request threw, resolved with matching bundled cities
C11_Witness ==
    /\ searchCall.pc = "resolved"
    /\ searchCall.fn = "searchCitiesAdvanced"
    /\ searchCall.requests = 1
    /\ searchCall.response = "throws"
    /\ Len(searchCall.result) > 0
    /\ FromBundledList(searchCall.result, searchCall.query)

-----------------------------------------------------------------------------
(* Vocabulary of the properties of CitySearch *)

\* in this step searchForCities starts a search
SearchStarts == Len(searches') = Len(searches) + 1

\* in this step the query or the search mode changes
QueryOrModeChanges == DepsChanged(citySearch, citySearch')

(* C13: at most one debounce timer is pending at any time; every change of *)
(* the query or the search mode cancels the pending timer and sets one for *)
(* the new query, due 300 ms later; a search is started only when 300 ms   *)
(* have passed since the last change, and it is for the query and mode of  *)
(* that change; so two searches start at least 300 ms apart, and a burst   *)
(* of changes less than 300 ms apart starts at most one, for its last      *)
(* query.                                                                  *)
C13_DebouncedSearch ==
    /\ [](Cardinality(timers) <= 1)
    /\ [](\A k \in 1..(Len(searches) - 1) :
              searches[k + 1].startedAt >= searches[k].startedAt + DebounceMs)
    /\ [][ /\ QueryOrModeChanges =>
                /\ lastChange' = now
                /\ timers' = {[query |-> citySearch'.query, searchMode |-> citySearch'.searchMode,
                               due |-> now + DebounceMs, current |-> TRUE]}
           /\ SearchStarts =>
                /\ now >= lastChange + DebounceMs
                /\ searches'[Len(searches')].query = citySearch.query
                /\ searches'[Len(searches')].fn = SearchFunction(citySearch.searchMode)
                /\ searches'[Len(searches')].startedAt = now
                /\ timers' = {} ]_vars

\* the query was changed twice within 300 ms of the mount; the timers of the
\* mount and of the first change never fired, and one search was started,
\* for the last query, 300 ms after the last change
C13_Witness ==
    /\ Len(searches) = 1
    /\ searches[1].query = "tokyo"
    /\ searches[1].fn = "searchCitiesAdvanced"
    /\ lastChange > 0
    /\ lastChange < DebounceMs
    /\ searches[1].startedAt = lastChange + DebounceMs
    /\ citySearch.query = "tokyo"
    /\ timers = {}

-----------------------------------------------------------------------------
(* Vocabulary of the properties of App *)

\* the run of handleCitySelect whose continuation ran last
LastFinished == CHOOSE i \in Finished : calls[i].finished = Cardinality(Finished)

\* the run of handleCitySelect that started last
LastStarted == Len(calls)

\* in this step the continuation of run i runs
Completes(i) == calls[i].stage # "done" /\ calls'[i].stage = "done"

\* the request of run i got a response that is not ok, or threw
RequestFailed(c) == c.response \in {"notOk", "throws"}

\* in this step the user invokes a handler
HandlerInvoked == lastEvent'.n = lastEvent.n + 1

(* C12: when a forecast request fails (a response that is not ok, or a     *)
(* thrown network error), the run of handleCitySelect that issued it ends  *)
(* with error null, loading false and a non-empty daily series built from  *)
(* demo data.                                                              *)
C12_FailedRequestEndsWithDemoSeries ==
    [][ \A i \in DOMAIN calls :
            (Completes(i) /\ RequestFailed(calls'[i]))
            => /\ error' = <<>>
               /\ loading' = FALSE
               /\ weatherData' # <<>>
               /\ calls'[i].demo
               /\ weatherData' =
                    processWeatherData(
                        getDemoWeatherData(calls[i].lat, calls[i].lon, now', rngState), tz) ]_vars

(* C14: every city selection, and every retry or refresh made while a city *)
(* is selected, starts exactly one run of fetchWeatherData, for that       *)
(* city's coordinates, which issues at most one request; a retry or        *)
(* refresh with no selected city starts none and changes no state; and no  *)
(* other step starts a fetch.                                              *)
C14_OneFetchPerSelection ==
    [][ /\ HandlerInvoked =>
             LET target == IF lastEvent'.kind = "select" THEN lastEvent'.city ELSE selectedCity
             IN  IF target # <<>>
                 THEN /\ Len(calls') = Len(calls) + 1
                      /\ SubSeq(calls', 1, Len(calls)) = calls
                      /\ calls'[Len(calls')].city = target[1]
                      /\ calls'[Len(calls')].lat = target[1].lat
                      /\ calls'[Len(calls')].lon = target[1].lon
                      /\ calls'[Len(calls')].requests <= 1
                      /\ lastEvent'.city = target
                 ELSE UNCHANGED <<selectedCity, weatherData, loading, error, lastUpdated, calls>>
        /\ ~HandlerInvoked =>
             /\ Len(calls') = Len(calls)
             /\ \A i \in DOMAIN calls : calls'[i].requests = calls[i].requests ]_vars

\* a refresh of the selected city started a second fetch, for the same coordinates
C14_Witness ==
    /\ lastEvent.kind = "refresh"
    /\ Len(calls) = 2
    /\ selectedCity = <<calls[2].city>>
    /\ calls[2].lat = calls[1].lat
    /\ calls[2].lon = calls[1].lon
    /\ calls[2].requests = 1

(* C15: results are applied in the order the requests resolve: the daily   *)
(* series held is the one of the run whose continuation ran last (empty    *)
(* when it failed), and the selected city is the one of the run that       *)
(* started last; so when A is selected, then B, and B's request resolves   *)
(* first, weatherData ends as A's series while selectedCity is B.          *)
C15_ResultsAppliedInResolutionOrder ==
    /\ calls # <<>> => selectedCity = <<calls[LastStarted].city>>
    /\ Finished # {} => weatherData = calls[LastFinished].series

\* A then B selected, B's request resolved first, both succeeded
C15_Witness ==
    /\ Len(calls) = 2
    /\ calls[1].city # calls[2].city
    /\ calls[1].outcome = "success" /\ calls[2].outcome = "success"
    /\ ~calls[1].demo /\ ~calls[2].demo
    /\ calls[2].finished = 1 /\ calls[1].finished = 2
    /\ weatherData = calls[1].series
    /\ weatherData # calls[2].series
    /\ selectedCity = <<calls[2].city>>

(* C16: after a successful fetch of a forecast of 40 samples 3 hours apart *)
(* the daily series held has seven entries.                                *)
C16_SevenDayForecast ==
    (Finished # {} /\ calls[LastFinished].outcome = "success")
        => Len(weatherData) = MaxDailyForecasts

(* C17: while a request started by handleCitySelect is unresolved, loading *)
(* is true.                                                                *)
C17_LoadingWhileInFlight == InFlight # {} => loading

(* C18: once no request is in flight, if the run that started last         *)
(* succeeded then error is null and weatherData is that run's series.      *)
C18_LastStartedWins ==
    (calls # <<>> /\ InFlight = {} /\ calls[LastStarted].outcome = "success")
        => /\ error = <<>>
           /\ weatherData = calls[LastStarted].series

(* C19: when producing the daily series throws in handleCitySelect, error  *)
(* becomes the message of the failure, weatherData becomes empty, loading  *)
(* becomes false, and selectedCity and lastUpdated are left as they were.  *)
C19_ProcessingFailure ==
    [][ \A i \in DOMAIN calls :
            (Completes(i) /\ calls'[i].outcome = "failure")
            => /\ error' = <<"Cannot read properties of undefined (reading 'forEach')">>
               /\ weatherData' = <<>>
               /\ loading' = FALSE
               /\ selectedCity' = selectedCity
               /\ lastUpdated' = lastUpdated ]_vars

\* a selection succeeded, then a refresh got a body without a list, later
C19_Witness ==
    /\ Len(calls) = 2
    /\ calls[1].outcome = "success" /\ calls[1].finished = 1
    /\ calls[2].outcome = "failure" /\ calls[2].finished = 2
    /\ calls[2].response = "ok" /\ calls[2].body = "ok"
    /\ error # <<>>
    /\ weatherData = <<>>
    /\ ~loading
    /\ lastUpdated # <<>> /\ lastUpdated[1] < now
    /\ selectedCity = <<calls[2].city>>

(* C20: when every started request is eventually answered, after finitely  *)
(* many selections, retries and refreshes loading is eventually false and  *)
(* stays false; and loading turns true only in a step in which a handler   *)
(* starts a fetch.                                                         *)
C20_LoadingEventuallyFalse ==
    /\ <>[](~loading)
    /\ [][ (~loading /\ loading') =>
              /\ HandlerInvoked
              /\ lastEvent'.kind \in {"select", "retry", "refresh"}
              /\ Len(calls') = Len(calls) + 1 ]_vars

\* two overlapping runs have both ended and loading is false
C20_Witness ==
    /\ Len(calls) = 2
    /\ InFlight = {}
    /\ calls[2].finished = 1
    /\ ~loading


-----------------------------------------------------------------------------
(* Properties of CitySearch: suggestions, keyboard and search mode *)

\* every search that was started has resolved and its continuation has run
AllSearchesResolved == \A i \in DOMAIN searches : searches[i].stage = "done"

\* the timer set by the last change of the query or mode has fired
CurrentTimerFired == timers = {}

\* every setter call made so far has been rendered
Rendered == updates = <<>>

\* the search started last
LastSearch == searches[Len(searches)]

(* C21: once the debounce timer of the current query has fired and every   *)
(* started search has resolved, the suggestions are the results of the     *)
(* search for the current query, or are empty and hidden when the current  *)
(* query has fewer than 2 characters, in whatever order the searches       *)
(* resolved.                                                               *)
C21_SuggestionsOfCurrentQuery ==
    (CurrentTimerFired /\ AllSearchesResolved /\ Rendered) =>
        IF Len(citySearch.query) < 2
        THEN citySearch.suggestions = <<>> /\ ~citySearch.showSuggestions
        ELSE /\ searches # <<>>
             /\ LastSearch.query = citySearch.query
             /\ citySearch.suggestions = LastSearch.result


\* the suggestions list is rendered (CitySearch.tsx line 248)
ListShown == citySearch.showSuggestions /\ citySearch.suggestions # <<>>

\* the cities of the suggestions list
SuggestedCities == {citySearch.suggestions[k] : k \in DOMAIN citySearch.suggestions}

\* the state the setter calls queued so far lead to
Queued == ApplyUpdates(baseState, CallsOf(updates))

(* C22: whenever suggestions is non-empty, -1 <= highlightedIndex <        *)
(* suggestions.length, after any sequence of typing, keys, selections and  *)
(* search resolutions; every city passed to onCitySelect is an element of  *)
(* the suggestions list of that moment; and Enter with highlightedIndex =  *)
(* -1, with hidden suggestions or with an empty list selects nothing and   *)
(* changes nothing.                                                        *)
C22_EnterSelectsASuggestion ==
    /\ [](citySearch.suggestions # <<>> =>
              /\ -1 <= citySearch.highlightedIndex
              /\ citySearch.highlightedIndex < Len(citySearch.suggestions))
    /\ [][ /\ selections' # selections =>
                /\ Len(selections') = Len(selections) + 1
                /\ selections'[Len(selections')] \in SuggestedCities
           /\ (KeyDown("Enter") /\ selections' # selections) =>
                /\ ListShown
                /\ citySearch.highlightedIndex >= 0
                /\ citySearch.highlightedIndex < Len(citySearch.suggestions)
                /\ selections'[Len(selections')] =
                       citySearch.suggestions[citySearch.highlightedIndex + 1]
           /\ (KeyDown("Enter") /\ (citySearch.highlightedIndex = -1 \/ ~ListShown)) =>
                /\ selections' = selections
                /\ citySearch' = citySearch ]_vars

\* the index after ArrowDown and after ArrowUp, for an index h of a list of n
IndexAfterArrowDown(h, n) == IF h = n - 1 THEN 0 ELSE h + 1

IndexAfterArrowUp(h, n) == IF h = 0 \/ h = -1 THEN n - 1 ELSE h - 1

\* a step of ArrowDown, ArrowUp or Escape with the suggestions shown and
\* non-empty moves the index, or hides the list, as C23 says, and changes
\* nothing else
ArrowKeysAndEscapeStep ==
    ListShown =>
      LET n == Len(citySearch.suggestions)
          h == citySearch.highlightedIndex
      IN /\ KeyDown("ArrowDown") =>
              citySearch' = [citySearch EXCEPT
                                !.highlightedIndex = IndexAfterArrowDown(h, n)]
         /\ KeyDown("ArrowUp") =>
              citySearch' = [citySearch EXCEPT
                                !.highlightedIndex = IndexAfterArrowUp(h, n)]
         /\ KeyDown("Escape") =>
              citySearch' = [citySearch EXCEPT !.showSuggestions = FALSE,
                                               !.highlightedIndex = -1]
         /\ (KeyDown("ArrowDown") \/ KeyDown("ArrowUp") \/ KeyDown("Escape")) =>
              /\ citySearch'.query = citySearch.query
              /\ citySearch'.suggestions = citySearch.suggestions
              /\ UNCHANGED <<timers, searches, selections>>

(* C23: with the suggestions shown and non-empty, ArrowDown moves          *)
(* highlightedIndex to the next index and from the last index to 0;        *)
(* ArrowUp moves it to the previous index and from 0 or -1 to the last     *)
(* index; Escape hides the suggestions and sets highlightedIndex to -1;    *)
(* none of the three changes query or suggestions, or anything else of the *)
(* component.                                                              *)
C23_ArrowKeysAndEscape == [][ArrowKeysAndEscapeStep]_vars

\* the index is -1 or an index of the suggestions
IndexInsideTheList ==
    /\ -1 <= citySearch.highlightedIndex
    /\ citySearch.highlightedIndex < Len(citySearch.suggestions)

\* the steps of the three keys that start with the index inside the list:
\* the other steps start in a state that the stale list length of the
\* arrow-key updaters leaves behind (C22)
ArrowKeysInsideTheList == [][IndexInsideTheList => ArrowKeysAndEscapeStep]_vars

(* C24: every search that CitySearch starts uses searchCitiesAdvanced      *)
(* (with limit 25) exactly when the query it searches has more than 4      *)
(* characters, and searchCities otherwise, after any sequence of typing,   *)
(* clearing and selecting; a selection empties the query and leaves the    *)
(* search mode as it was.                                                  *)
C24_SearchFunctionByLength ==
    \A i \in DOMAIN searches :
        /\ Len(searches[i].query) >= 2
        /\ IF Len(searches[i].query) > 4
           THEN searches[i].fn = "searchCitiesAdvanced" /\ searches[i].limit = <<25>>
           ELSE searches[i].fn = "searchCities" /\ searches[i].limit = <<>>

\* a city found by an advanced search was selected: the query is empty, the
\* mode is still 'advanced', the timer of that change fired and started no
\* search
C24_Witness ==
    /\ citySearch.query = ""
    /\ citySearch.searchMode = "advanced"
    /\ Len(selections) = 1
    /\ timers = {}
    /\ Len(searches) = 1
    /\ searches[1].fn = "searchCitiesAdvanced"
    /\ lastChange >= searches[1].startedAt


\* in this step a debounce timer fires: it leaves the set and none is set
TimerFires == timers' # timers /\ timers' \subseteq timers

\* the timer that fires in this step
FiredTimer == CHOOSE t \in timers : t \notin timers'

(* C25: for a query of fewer than 2 characters no search request is made:  *)
(* a call of searchCities or searchCitiesAdvanced resolves with the empty  *)
(* list, having issued no request and not read the demo list (which has    *)
(* entries for every such query); and when the debounce timer of such a    *)
(* query fires, CitySearch empties and hides the suggestions and starts no *)
(* search.                                                                 *)
C25_ShortQueryStartsNoSearch ==
    /\ []((~SearchIdle /\ Len(searchCall.query) < 2) =>
              /\ searchCall.requests = 0
              /\ searchCall.response = "none"
              /\ searchCall.pc \in {"called", "resolved"}
              /\ searchCall.pc = "resolved" => searchCall.result = <<>>)
    /\ [](\A i \in DOMAIN searches : Len(searches[i].query) >= 2)
    /\ [][ (TimerFires /\ Len(FiredTimer.query) < 2) =>
               /\ Len(updates') = Len(updates) + 2
               /\ ApplyUpdates(baseState', CallsOf(updates')) =
                      [Queued EXCEPT !.suggestions = <<>>, !.showSuggestions = FALSE]
               /\ citySearch' = citySearch
               /\ searches' = searches ]_vars

\* suggestions were found and shown for a longer query, then the query was
\* shortened to one character and its timer fired: no second search, and the
\* suggestions are gone
C25_Witness ==
    /\ citySearch.query = "t"
    /\ timers = {}
    /\ Len(searches) = 1
    /\ searches[1].stage = "done"
    /\ searches[1].result # <<>>
    /\ Rendered
    /\ citySearch.suggestions = <<>>
    /\ ~citySearch.showSuggestions


-----------------------------------------------------------------------------
(* Properties of the search functions: fallback list, duplicates, order *)

\* s contains q as a substring when letter case is ignored
ContainsIgnoringCase(s, q) ==
    \E k \in 0..(Len(s) - Len(q)) :
        SubSeq(toLowerCase(s), k + 1, k + Len(q)) = toLowerCase(q)

\* the first position from j on at which full holds city, 0 when there is none
NextPosition(city, full, j) ==
    LET at == {k \in j..Len(full) : full[k] = city}
    IN  IF at = {} THEN 0 ELSE CHOOSE k \in at : \A m \in at : k <= m

\* the entries of sub occur in full, in the same order, from position j on
RECURSIVE OccursInOrder(_, _, _)
OccursInOrder(sub, full, j) ==
    IF sub = <<>> THEN TRUE
    ELSE \E k \in {NextPosition(Head(sub), full, j)} :
            k # 0 /\ OccursInOrder(Tail(sub), full, k + 1)

\* the call resolved from the bundled list
InFallbackMode ==
    /\ searchCall.pc = "resolved"
    /\ Len(searchCall.query) >= 2
    /\ (NoValidKey \/ searchCall.response \in {"notOk", "throws"} \/ searchCall.body = "throws")

(* C26: in fallback mode every returned city contains the query, ignoring  *)
(* case, in its name, its country code or its state; the cities are in the *)
(* order of the bundled list; and there are at most 15 of them, for        *)
(* searchCities and for searchCitiesAdvanced with any limit.               *)
C26_FallbackResult ==
    InFallbackMode =>
        /\ \A i \in 1..Len(searchCall.result) :
              \/ ContainsIgnoringCase(searchCall.result[i].name, searchCall.query)
              \/ ContainsIgnoringCase(searchCall.result[i].country, searchCall.query)
              \/ ContainsIgnoringCase(searchCall.result[i].state, searchCall.query)
        /\ OccursInOrder(searchCall.result, globalCities, 1)
        /\ Len(searchCall.result) <= 15

\* searchCitiesAdvanced with limit 25, whose request was answered with an
\* error status, returned 15 of the more than 25 bundled cities that match
C26_Witness ==
    /\ InFallbackMode
    /\ searchCall.fn = "searchCitiesAdvanced"
    /\ searchCall.limit = 25
    /\ searchCall.response = "notOk"
    /\ Len(searchCall.result) = 15
    /\ Len(SelectSeq(globalCities, LAMBDA c : MatchesQuery(c, toLowerCase(searchCall.query)))) > 25


\* the key of a location: name, country and state, a missing state being ''
KeyOf(city) == <<city.name, city.country, city.state>>

\* the positions of cities that hold the first occurrence of a key
FirstOccurrences(cities) ==
    {i \in DOMAIN cities : \A j \in 1..(i - 1) : KeyOf(cities[j]) # KeyOf(cities[i])}

\* the k-th smallest element of a set of positions
NthPosition(positions, k) ==
    CHOOSE i \in positions : Cardinality({j \in positions : j <= i}) = k

(* C27: removeDuplicateCities returns the subsequence of its input that    *)
(* keeps, for each key (name, country, state), only the first occurrence:  *)
(* no two results share a key, every key of the input is present, the      *)
(* relative order is kept, and applying it twice gives the same as once.   *)
C27_FirstOccurrencesKept ==
    geocoded.stage = "unique" =>
        LET input == geocoded.data
            output == geocoded.uniqueCities
            firsts == FirstOccurrences(input)
        IN  /\ \A i, j \in DOMAIN output : i # j => KeyOf(output[i]) # KeyOf(output[j])
            /\ \A i \in DOMAIN input : \E j \in DOMAIN output : KeyOf(output[j]) = KeyOf(input[i])
            /\ Len(output) = Cardinality(firsts)
            /\ \A k \in DOMAIN output : output[k] = input[NthPosition(firsts, k)]
            /\ removeDuplicateCities(output) = output

\* Paris (FR) came twice with different coordinates, after and before another
\* Paris: the first Paris (FR) is kept, the second dropped, the order kept
C27_Witness ==
    /\ geocoded.stage = "unique"
    /\ Len(geocoded.data) = 4
    /\ Len(geocoded.uniqueCities) = 3
    /\ KeyOf(geocoded.data[1]) = KeyOf(geocoded.data[4])
    /\ geocoded.data[1] # geocoded.data[4]
    /\ geocoded.uniqueCities = SubSeq(geocoded.data, 1, 3)

\* the classes of relevance of a name for a query
ExactMatch(city, query) == toLowerCase(city.name) = toLowerCase(query)

PrefixMatch(city, query) ==
    /\ Len(query) <= Len(city.name)
    /\ toLowerCase(SubSeq(city.name, 1, Len(query))) = toLowerCase(query)

\* b is a permutation of a
IsPermutation(a, b) ==
    /\ Len(a) = Len(b)
    /\ \A x \in {a[i] : i \in DOMAIN a} :
          Cardinality({i \in DOMAIN a : a[i] = x}) = Cardinality({i \in DOMAIN b : b[i] = x})

(* C28: in the array searchCities returns for a successful response, every *)
(* city whose lower-cased name equals the lower-cased query precedes every *)
(* city whose name does not, every city whose name starts with the query   *)
(* precedes every city whose name does not, cities of the same class are   *)
(* in alphabetical order of name, and the array is a permutation of the    *)
(* de-duplicated response.                                                 *)
C28_SortedByRelevance ==
    geocoded.stage = "returned" =>
        LET out == geocoded.returned
            q == geocoded.query
        IN  /\ \A i, j \in DOMAIN out :
                  /\ (ExactMatch(out[i], q) /\ ~ExactMatch(out[j], q)) => i < j
                  /\ (PrefixMatch(out[i], q) /\ ~PrefixMatch(out[j], q)) => i < j
                  /\ ( /\ i < j
                       /\ ExactMatch(out[i], q) = ExactMatch(out[j], q)
                       /\ PrefixMatch(out[i], q) = PrefixMatch(out[j], q) )
                     => localeCompare(toLowerCase(out[i].name), toLowerCase(out[j].name)) <= 0
            /\ IsPermutation(removeDuplicateCities(geocoded.data), out)

\* a response in reverse order of relevance for 'par': a name that contains
\* it, two that start with it, one that equals it
C28_Witness ==
    /\ geocoded.stage = "returned"
    /\ geocoded.query = "par"
    /\ Len(geocoded.returned) = 4
    /\ geocoded.data[1].name = "Le Paradis"
    /\ geocoded.data[2].name = "Parma"
    /\ geocoded.data[3].name = "Paris"
    /\ geocoded.data[4].name = "Par"
    /\ geocoded.returned[1].name = "Par"
    /\ geocoded.returned[2].name = "Paris"
    /\ geocoded.returned[3].name = "Parma"
    /\ geocoded.returned[4].name = "Le Paradis"


-----------------------------------------------------------------------------
(* Properties of searchCitiesByCoordinates *)

\* the request of the call failed: a response that is not ok, or a thrown error
ReverseRequestFailed ==
    \/ searchCall.response \in {"notOk", "throws"}
    \/ searchCall.body = "throws"

(* C29: the promise returned by searchCitiesByCoordinates is never         *)
(* rejected; with no valid key it resolves, without a request, with        *)
(* exactly one location that carries the latitude and longitude given; and *)
(* when the request fails (a response that is not a success, or a thrown   *)
(* error) it resolves with the empty list, not with demo data.             *)
C29_ReverseNeverRejects ==
    /\ searchCall.pc # "rejected"
    /\ NoValidKey =>
          /\ searchCall.requests = 0
          /\ searchCall.pc = "resolved" =>
                /\ Len(searchCall.result) = 1
                /\ searchCall.result[1].lat = searchCall.lat
                /\ searchCall.result[1].lon = searchCall.lon
    /\ (searchCall.pc = "resolved" /\ ~NoValidKey /\ ReverseRequestFailed) =>
          searchCall.result = <<>>

\* with a valid key the request was answered with an error status and the
\* call resolved with the empty list
C29_Witness ==
    /\ searchCall.pc = "resolved"
    /\ searchCall.fn = "searchCitiesByCoordinates"
    /\ ~NoValidKey
    /\ searchCall.requests = 1
    /\ searchCall.response = "notOk"
    /\ searchCall.result = <<>>
    /\ searchCall.lat # 0


-----------------------------------------------------------------------------
(* Properties of the calendar fields of processWeatherData *)

\* the weekday of a calendar date 'YYYY-MM-DD' (1970-01-01 was a Thursday)
WeekdayOfDate(dateStr) == WeekdayNames[(dateStr % 7) + 1]

\* the calendar date of an instant on the browser's clock
LocalDateOf(ms, zone) == (ms + zone * MsPerHour) \div MsPerDay

\* the samples of the input an entry of the series can have been made from
SamplesOf(entry) == {k \in DOMAIN list : ToDailyForecast(list[k], tz) = entry}

(* C30: for every entry of the daily series and every timezone offset of   *)
(* the browser, dayOfWeek is the weekday of the entry's own date, and the  *)
(* hour of day used for the midday selection is an hour of that same       *)
(* calendar date: the sample's date on the clock that gives the hour and   *)
(* the weekday is the entry's date.                                        *)
C30_DateHourWeekdayAgree ==
    \A e \in DOMAIN dailyForecasts :
        /\ dailyForecasts[e].dayOfWeek = WeekdayOfDate(dailyForecasts[e].date)
        /\ \A k \in SamplesOf(dailyForecasts[e]) :
              LocalDateOf(list[k].dt * MsPerSecond, tz) = dailyForecasts[e].date

====
